---- MODULE Spec2Model ----
(***************************************************************************)
(* A model of matcher-latest: the string utilities (utils.ts), the         *)
(* MatchingEngine (engine.ts) and the public functions (matcher.ts).       *)
(*                                                                         *)
(* A JavaScript string is a sequence of characters; a character is a       *)
(* one-element name such as "a", "*" or "\\".  Two characters outside      *)
(* ASCII are named by their code point: EAcute (U+00E9, a precomposed      *)
(* e with acute accent) and CombAcute (U+0301, the combining acute accent  *)
(* alone).  A JavaScript value that may or may not be a string is a record *)
(* [type, val].                                                            *)
(***************************************************************************)
EXTENDS Integers, Sequences, FiniteSets, TLC

\* ------------------------------------------------------------------------
\* Characters and JavaScript string primitives
\* ------------------------------------------------------------------------

BS == "\\"

EAcute == "U+00E9"

CombAcute == "U+0301"

LF == "\n"

\* A JavaScript value: a string, or something that is not a string.
Str(s) == [type |-> "string", val |-> s]

NotAString == [type |-> "number", val |-> <<>>]

RECURSIVE Flatten(_)
Flatten(ss) == IF ss = <<>> THEN <<>> ELSE Head(ss) \o Flatten(Tail(ss))

\* s.startsWith(c) for a one-character c.
StartsWith(s, c) == Len(s) > 0 /\ s[1] = c

\* s.slice(1)
Slice1(s) == SubSeq(s, 2, Len(s))

\* s.includes(t)
Includes(s, t) ==
    \E i \in 0..(Len(s) - Len(t)) : SubSeq(s, i + 1, i + Len(t)) = t

\* s.indexOf(c), 1-based; the character occurs in s.
IndexOf(s, c) ==
    CHOOSE i \in 1..Len(s) : s[i] = c /\ \A j \in 1..(i - 1) : s[j] # c

\* String.prototype.toLowerCase, on the characters of the model.
LowerOf(c) ==
    CASE c = "A" -> "a"
      [] c = "B" -> "b"
      [] OTHER -> c

toLowerCase(s) == [i \in 1..Len(s) |-> LowerOf(s[i])]

\* String.prototype.normalize("NFD"): canonical decomposition.
DecompositionOf(c) == IF c = EAcute THEN <<"e", CombAcute>> ELSE <<c>>

normalizeNFD(s) == Flatten([i \in 1..Len(s) |-> DecompositionOf(s[i])])

\* /[\u0300-\u036f]/
IsCombiningMark(c) == c = CombAcute

\* ------------------------------------------------------------------------
\* utils.ts
\* ------------------------------------------------------------------------

MAX_CACHE_SIZE == 1000

\* /[.+^${}()|[\]\\]/
RegexSpecialChars == {".", "+", "^", "$", "{", "}", "(", ")", "|", "[", "]", BS}

\* The same class without the backslash.
UnsupportedChars_NoBackslash == {"+", "^", "$", "{", "}", "(", ")", "|", "[", "]"}

\* /[+^${}()|[\]\\]/
UnsupportedChars == {"+", "^", "$", "{", "}", "(", ")", "|", "[", "]", BS}

EscapeChar(c) == IF c \in RegexSpecialChars THEN <<BS, c>> ELSE <<c>>

escapeRegExp(s) == Flatten([i \in 1..Len(s) |-> EscapeChar(s[i])])

normalizeString(input, options) ==
    LET lowered == IF ~options.caseSensitive THEN toLowerCase(input) ELSE input
    IN  IF options.accentInsensitive
        THEN SelectSeq(normalizeNFD(lowered), LAMBDA c : ~IsCombiningMark(c))
        ELSE lowered

getBasePattern(pattern) ==
    IF StartsWith(pattern, "!") THEN Slice1(pattern) ELSE pattern

\* validatePattern: the matches of the unsupported characters, in order, and
\* of those the ones whose FIRST occurrence in the pattern (indexOf) is at
\* index 0 or is not preceded by a backslash.
UnsupportedMatches(s) == SelectSeq(s, LAMBDA c : c \in UnsupportedChars)

UnescapedMatches(s) ==
    SelectSeq(UnsupportedMatches(s),
              LAMBDA c : LET charIndex == IndexOf(s, c)
                         IN  charIndex = 1 \/ s[charIndex - 1] # BS)

validatePattern(pattern) ==
    IF pattern.type # "string"
    THEN [valid |-> FALSE, error |-> "Pattern must be a string"]
    ELSE IF Len(pattern.val) = 0
    THEN [valid |-> TRUE, error |-> ""]
    ELSE IF Len(UnescapedMatches(pattern.val)) > 0
    THEN [valid |-> FALSE, error |-> "Unsupported characters found"]
    ELSE [valid |-> TRUE, error |-> ""]

\* input.split(separator), for a non-empty separator.
RECURSIVE SplitAcc(_, _, _)
SplitAcc(s, sep, cur) ==
    IF Len(s) < Len(sep) THEN <<cur \o s>>
    ELSE IF SubSeq(s, 1, Len(sep)) = sep
    THEN <<cur>> \o SplitAcc(SubSeq(s, Len(sep) + 1, Len(s)), sep, <<>>)
    ELSE SplitAcc(Tail(s), sep, Append(cur, Head(s)))

splitIntoSegments(input, separator) ==
    IF separator = <<>> THEN <<input>>
    ELSE SelectSeq(SplitAcc(input, separator, <<>>), LAMBDA seg : Len(seg) > 0)

\* s.replace(new RegExp(t, "g"), r) for a literal, non-empty t.
RECURSIVE ReplaceAll(_, _, _)
ReplaceAll(s, t, r) ==
    IF Len(s) < Len(t) THEN s
    ELSE IF SubSeq(s, 1, Len(t)) = t
    THEN r \o ReplaceAll(SubSeq(s, Len(t) + 1, Len(s)), t, r)
    ELSE <<Head(s)>> \o ReplaceAll(Tail(s), t, r)

\* ------------------------------------------------------------------------
\* The RegExp objects compilePattern builds: the constructor (a syntax check
\* of the source text) and RegExp.prototype.test.  The sources are made of
\* literal characters, "\" escapes, ".", the quantifiers "*" and "?" (each
\* optionally lazy), and the assertions "^", "$" and "\b".
\* ------------------------------------------------------------------------

LineTerminators == {LF, "\r"}

\* \w
WordChars ==
    {"a", "b", "c", "d", "e", "f", "o", "r", "x", "y", "z", "A", "B", "0", "1", "_"}

RECURSIVE ParseFrom(_, _)
ParseFrom(src, i) ==
    IF i > Len(src) THEN [ok |-> TRUE, toks |-> <<>>]
    ELSE IF src[i] \in {"*", "?"} THEN [ok |-> FALSE, toks |-> <<>>]
    ELSE IF src[i] = BS /\ i = Len(src) THEN [ok |-> FALSE, toks |-> <<>>]
    ELSE
      LET c == src[i]
          atom == IF c = BS
                  THEN IF src[i + 1] = "b"
                       THEN [kind |-> "wordb", ch |-> ""]
                       ELSE [kind |-> "char", ch |-> src[i + 1]]
                  ELSE IF c = "." THEN [kind |-> "any", ch |-> ""]
                  ELSE IF c = "^" THEN [kind |-> "bol", ch |-> ""]
                  ELSE IF c = "$" THEN [kind |-> "eol", ch |-> ""]
                  ELSE [kind |-> "char", ch |-> c]
          j == i + (IF c = BS THEN 2 ELSE 1)
          hasQ == j <= Len(src) /\ src[j] \in {"*", "?"}
          lazy == hasQ /\ j + 1 <= Len(src) /\ src[j + 1] = "?"
          k == j + (IF hasQ THEN 1 ELSE 0) + (IF lazy THEN 1 ELSE 0)
          quant == IF ~hasQ THEN "one" ELSE IF src[j] = "*" THEN "star" ELSE "opt"
      IN  IF hasQ /\ atom.kind \in {"wordb", "bol", "eol"}
          THEN [ok |-> FALSE, toks |-> <<>>]
          ELSE LET rest == ParseFrom(src, k)
               IN  [ok |-> rest.ok,
                    toks |-> IF rest.ok
                             THEN <<[kind |-> atom.kind, ch |-> atom.ch,
                                     quant |-> quant]>> \o rest.toks
                             ELSE <<>>]

\* new RegExp(source, flags) throws a SyntaxError exactly when this is FALSE.
RegExpValid(source) == ParseFrom(source, 1).ok

AtomMatches(tok, c, ignoreCase) ==
    IF tok.kind = "any" THEN c \notin LineTerminators
    ELSE IF ignoreCase THEN LowerOf(tok.ch) = LowerOf(c)
    ELSE tok.ch = c

IsWordBoundary(s, p) ==
    LET before == p > 1 /\ s[p - 1] \in WordChars
        after == p <= Len(s) /\ s[p] \in WordChars
    IN  before # after

RECURSIVE MatchFrom(_, _, _, _, _)
MatchFrom(toks, t, s, p, ignoreCase) ==
    IF t > Len(toks) THEN TRUE
    ELSE
      LET tok == toks[t]
          here == p <= Len(s) /\ AtomMatches(tok, s[p], ignoreCase)
      IN  CASE tok.kind = "bol" -> p = 1 /\ MatchFrom(toks, t + 1, s, p, ignoreCase)
            [] tok.kind = "eol" ->
                 p = Len(s) + 1 /\ MatchFrom(toks, t + 1, s, p, ignoreCase)
            [] tok.kind = "wordb" ->
                 IsWordBoundary(s, p) /\ MatchFrom(toks, t + 1, s, p, ignoreCase)
            [] OTHER ->
                 CASE tok.quant = "one" ->
                        here /\ MatchFrom(toks, t + 1, s, p + 1, ignoreCase)
                   [] tok.quant = "star" ->
                        \/ MatchFrom(toks, t + 1, s, p, ignoreCase)
                        \/ here /\ MatchFrom(toks, t, s, p + 1, ignoreCase)
                   [] tok.quant = "opt" ->
                        \/ MatchFrom(toks, t + 1, s, p, ignoreCase)
                        \/ here /\ MatchFrom(toks, t + 1, s, p + 1, ignoreCase)

\* regex.test(s): the source begins with "^", so only a match from the start
\* of s counts; the flags are "" or "i", so test keeps no lastIndex.
RegExpTest(regex, s) ==
    MatchFrom(ParseFrom(regex.source, 1).toks, 1, s, 1, regex.flags = "i")

\* ------------------------------------------------------------------------
\* compilePattern and the pattern cache.  The cache (a Map, which iterates in
\* insertion order) is a sequence of [key, entry]; the key, the text
\* `${pattern}:${JSON.stringify(options)}`, is the pair of its two parts.
\* Every operation that can reach compilePattern takes the cache and returns
\* the cache it leaves behind.
\* ------------------------------------------------------------------------

\* A cache key made of the pattern alone.
CacheKey_PatternOnly(pattern, options) == [pattern |-> pattern, options |-> <<>>]

CacheKey(pattern, options) == [pattern |-> pattern, options |-> options]

CacheHits(cache, key) == {i \in 1..Len(cache) : cache[i].key = key}

NoEntry ==
    [regex |-> [source |-> <<>>, flags |-> ""], isNegated |-> FALSE,
     originalPattern |-> <<>>]

\* options.key for an options object that may lack the key: what the absent
\* key (undefined) reads as where the code tests it.
OptionOr(options, key, absent) ==
    IF key \in DOMAIN options THEN options[key] ELSE absent

\* The steps compilePattern takes from the pattern to the text it hands to
\* new RegExp.  .replace(/\?/g, ".")
QuestionToDot(s) == [i \in 1..Len(s) |-> IF s[i] = "?" THEN "." ELSE s[i]]

\* .replace(/\*/g, ".*")
StarToDotStar(s) ==
    Flatten([i \in 1..Len(s) |-> IF s[i] = "*" THEN <<".", "*">> ELSE <<s[i]>>])

\* if (options.wordBoundary) regexPattern = `\\b${regexPattern}\\b`
WordBounded(regexPattern, options) ==
    IF OptionOr(options, "wordBoundary", FALSE)
    THEN <<BS, "b">> \o regexPattern \o <<BS, "b">>
    ELSE regexPattern

\* The separator step and `^${regexPattern}$`.  new RegExp(escapedSeparator,
\* "g") throws a SyntaxError (ok = FALSE) for a separator that is a bare
\* quantifier; a separator is literal text otherwise.
SeparatorsLazy(regexPattern, options) ==
    IF OptionOr(options, "separator", <<>>) = <<>>
    THEN [ok |-> TRUE, source |-> <<"^">> \o regexPattern \o <<"$">>]
    ELSE IF ~RegExpValid(escapeRegExp(options.separator))
    THEN [ok |-> FALSE, source |-> <<>>]
    ELSE [ok |-> TRUE,
          source |-> <<"^">>
                     \o ReplaceAll(regexPattern, options.separator, <<".", "*", "?">>)
                     \o <<"$">>]

\* The text handed to new RegExp by compilePattern.
RegexSource(pattern, options) ==
    SeparatorsLazy(
        WordBounded(
            StarToDotStar(QuestionToDot(escapeRegExp(
                IF StartsWith(pattern, "!") THEN Slice1(pattern) ELSE pattern))),
            options),
        options)

\* compilePattern with a hit moving the entry to the newest place (LRU).
CompileInto_HitRefreshes(cache, evicted, pattern, options, src) ==
    LET cacheKey == CacheKey(pattern, options)
        hits == CacheHits(cache, cacheKey)
        hit == CHOOSE i \in hits : TRUE
        entry == [regex |-> [source |-> src.source,
                             flags |-> IF OptionOr(options, "caseSensitive", FALSE)
                                       THEN "" ELSE "i"],
                  isNegated |-> StartsWith(pattern, "!"),
                  originalPattern |-> pattern]
    IN  IF hits # {}
        THEN [threw |-> FALSE, entry |-> cache[hit].entry,
              cache |-> Append(SubSeq(cache, 1, hit - 1)
                                   \o SubSeq(cache, hit + 1, Len(cache)),
                               cache[hit])]
        ELSE IF ~src.ok \/ ~RegExpValid(src.source)
        THEN [threw |-> TRUE, entry |-> NoEntry, cache |-> evicted]
        ELSE [threw |-> FALSE, entry |-> entry,
              cache |-> Append(evicted, [key |-> cacheKey, entry |-> entry])]

\* compilePattern without its cache lookup: every call compiles and inserts.
CompileInto_NoLookup(cache, evicted, pattern, options, src) ==
    LET cacheKey == CacheKey(pattern, options)
        entry == [regex |-> [source |-> src.source,
                             flags |-> IF OptionOr(options, "caseSensitive", FALSE)
                                       THEN "" ELSE "i"],
                  isNegated |-> StartsWith(pattern, "!"),
                  originalPattern |-> pattern]
    IN  IF ~src.ok \/ ~RegExpValid(src.source)
        THEN [threw |-> TRUE, entry |-> NoEntry, cache |-> evicted]
        ELSE [threw |-> FALSE, entry |-> entry,
              cache |-> Append(evicted, [key |-> cacheKey, entry |-> entry])]

\* compilePattern, given the cache as the eviction step leaves it and the text
\* for new RegExp: the lookup and, on a miss, new RegExp and patternCache.set.
\* A hit returns before the eviction step.
CompileInto(cache, evicted, pattern, options, src) ==
    LET cacheKey == CacheKey(pattern, options)
        hits == CacheHits(cache, cacheKey)
        entry == [regex |-> [source |-> src.source,
                             flags |-> IF OptionOr(options, "caseSensitive", FALSE)
                                       THEN "" ELSE "i"],
                  isNegated |-> StartsWith(pattern, "!"),
                  originalPattern |-> pattern]
    IN  IF hits # {}
        THEN [threw |-> FALSE, entry |-> cache[CHOOSE i \in hits : TRUE].entry,
              cache |-> cache]
        ELSE IF ~src.ok \/ ~RegExpValid(src.source)
        THEN [threw |-> TRUE, entry |-> NoEntry, cache |-> evicted]
        ELSE [threw |-> FALSE, entry |-> entry,
              cache |-> Append(evicted, [key |-> cacheKey, entry |-> entry])]

\* compilePattern evicting only when the cache is over its maximum size.
compilePattern_EvictLate(cache, pattern, options) ==
    CompileInto(cache,
                IF Len(cache) > MAX_CACHE_SIZE THEN Tail(cache) ELSE cache,
                pattern, options, RegexSource(pattern, options))

compilePattern(cache, pattern, options) ==
    CompileInto(cache,
                IF Len(cache) >= MAX_CACHE_SIZE THEN Tail(cache) ELSE cache,
                pattern, options, RegexSource(pattern, options))

clearPatternCache(cache) == <<>>

getCacheStats(cache) == [size |-> Len(cache), maxSize |-> MAX_CACHE_SIZE]

\* ------------------------------------------------------------------------
\* Edit distance and fuzzy matching.  A score is the exact fraction num/den.
\* ------------------------------------------------------------------------

Rat(n, d) == [num |-> n, den |-> d]

RatGE(x, y) == x.num * y.den >= y.num * x.den

RatGT(x, y) == x.num * y.den > y.num * x.den

RatEQ(x, y) == x.num * y.den = y.num * x.den

Min2(x, y) == IF x <= y THEN x ELSE y

Max2(x, y) == IF x >= y THEN x ELSE y

\* levenshteinDistance with a deletion charged twice.
levenshteinDistance_DearDeletion(a, b) ==
    IF Len(a) = 0 THEN Len(b)
    ELSE IF Len(b) = 0 THEN Len(a)
    ELSE
      LET matrix[i \in 0..Len(a), j \in 0..Len(b)] ==
              IF j = 0 THEN i
              ELSE IF i = 0 THEN j
              ELSE LET cost == IF a[i] = b[j] THEN 0 ELSE 1
                   IN  Min2(Min2(matrix[i - 1, j] + 2, matrix[i, j - 1] + 1),
                            matrix[i - 1, j - 1] + cost)
      IN  matrix[Len(a), Len(b)]

levenshteinDistance(a, b) ==
    IF Len(a) = 0 THEN Len(b)
    ELSE IF Len(b) = 0 THEN Len(a)
    ELSE
      LET matrix[i \in 0..Len(a), j \in 0..Len(b)] ==
              IF j = 0 THEN i
              ELSE IF i = 0 THEN j
              ELSE LET cost == IF a[i] = b[j] THEN 0 ELSE 1
                   IN  Min2(Min2(matrix[i - 1, j] + 1, matrix[i, j - 1] + 1),
                            matrix[i - 1, j - 1] + cost)
      IN  matrix[Len(a), Len(b)]

\* calculateSimilarity dividing by the shorter length.
calculateSimilarity_MinLength(a, b) ==
    IF a = b THEN Rat(1, 1)
    ELSE IF Len(a) = 0 /\ Len(b) = 0 THEN Rat(1, 1)
    ELSE IF Len(a) = 0 \/ Len(b) = 0 THEN Rat(0, 1)
    ELSE LET distance == levenshteinDistance(a, b)
             minLength == Min2(Len(a), Len(b))
         IN  Rat(minLength - distance, minLength)

calculateSimilarity(a, b) ==
    IF a = b THEN Rat(1, 1)
    ELSE IF Len(a) = 0 /\ Len(b) = 0 THEN Rat(1, 1)
    ELSE IF Len(a) = 0 \/ Len(b) = 0 THEN Rat(0, 1)
    ELSE LET distance == levenshteinDistance(a, b)
             maxLength == Max2(Len(a), Len(b))
         IN  Rat(maxLength - distance, maxLength)

\* fuzzyMatch with the substring hit put through the threshold check.
fuzzyMatch_SubstringThreshold(input, pattern, threshold) ==
    LET normalizedInput == toLowerCase(input)
        normalizedPattern ==
            SelectSeq(toLowerCase(pattern), LAMBDA c : c \notin {"*", "?", "!"})
        score == calculateSimilarity(normalizedInput, normalizedPattern)
    IN  IF normalizedPattern = <<>> THEN [matched |-> TRUE, score |-> Rat(1, 1)]
        ELSE IF Includes(normalizedInput, normalizedPattern)
        THEN [matched |-> RatGE(Rat(9, 10), threshold), score |-> Rat(9, 10)]
        ELSE [matched |-> RatGE(score, threshold), score |-> score]

fuzzyMatch(input, pattern, threshold) ==
    LET normalizedInput == toLowerCase(input)
        normalizedPattern ==
            SelectSeq(toLowerCase(pattern), LAMBDA c : c \notin {"*", "?", "!"})
        score == calculateSimilarity(normalizedInput, normalizedPattern)
    IN  IF normalizedPattern = <<>> THEN [matched |-> TRUE, score |-> Rat(1, 1)]
        ELSE IF Includes(normalizedInput, normalizedPattern)
        THEN [matched |-> TRUE, score |-> Rat(9, 10)]
        ELSE [matched |-> RatGE(score, threshold), score |-> score]

\* ------------------------------------------------------------------------
\* engine.ts: MatchingEngine.  An options object is a record; a caller's
\* partial options are a record with fewer fields.  A call ends in a return
\* (threw = FALSE) or a throw (threw = TRUE, error names the exception).
\* A MatchResult has its optional fields flagged by has*.
\* ------------------------------------------------------------------------

\* { ...a, ...b }
Spread(a, b) ==
    [k \in (DOMAIN a) \cup (DOMAIN b) |-> IF k \in DOMAIN b THEN b[k] ELSE a[k]]

DefaultOptions ==
    [caseSensitive |-> FALSE, allPatterns |-> FALSE, fuzzyMatch |-> FALSE,
     fuzzyThreshold |-> Rat(1, 5), partialMatch |-> FALSE, wordBoundary |-> FALSE,
     accentInsensitive |-> FALSE, maxDepth |-> 10, separator |-> <<>>]

\* new MatchingEngine(options): the engine's options.
MatchingEngine(options) == Spread(DefaultOptions, options)

\* setOptions starting again from the defaults.
setOptions_FromDefaults(current, options) == Spread(DefaultOptions, options)

setOptions(current, options) == Spread(current, options)

getOptions(current) == current

\* The object getOptions hands out, aliasing the engine's own options.
OptionsObject_Alias(current) == [alias |-> TRUE, options |-> current]

\* The object getOptions hands out: { ...this.options } is a new object.
OptionsObject(current) == [alias |-> FALSE, options |-> getOptions(current)]

MatchResult(matched, input, pattern, score) ==
    [matched |-> matched, input |-> input, hasPattern |-> TRUE, pattern |-> pattern,
     hasScore |-> TRUE, score |-> score, hasSegments |-> FALSE, segments |-> <<>>]

NoResult ==
    [matched |-> FALSE, input |-> <<>>, hasPattern |-> FALSE, pattern |-> <<>>,
     hasScore |-> FALSE, score |-> Rat(0, 1), hasSegments |-> FALSE, segments |-> <<>>]

Return(result, cache) ==
    [threw |-> FALSE, error |-> "", result |-> result, cache |-> cache]

Throw(error, cache) ==
    [threw |-> TRUE, error |-> error, result |-> NoResult, cache |-> cache]

BoolScore(matched) == IF matched THEN Rat(1, 1) ELSE Rat(0, 1)

\* { matched, input, pattern, score: matched ? 1 : 0 }
Scored(matched, input, pattern) ==
    MatchResult(matched, input, pattern, BoolScore(matched))

\* The verdict of matchRegex without its "Handle negation" step.
RegexMatched_NoNegation(compiled, options, normalizedInput, normalizedPattern) ==
    IF options.partialMatch /\ ~compiled.isNegated
    THEN \/ RegExpTest(compiled.regex, normalizedInput)
         \/ Includes(normalizedInput,
                     SelectSeq(normalizedPattern, LAMBDA ch : ch \notin {"*", "?"}))
    ELSE RegExpTest(compiled.regex, normalizedInput)

\* The verdict of matchRegex on the compiled pattern.
RegexMatched(compiled, options, normalizedInput, normalizedPattern) ==
    LET tested == IF options.partialMatch /\ ~compiled.isNegated
                  THEN \/ RegExpTest(compiled.regex, normalizedInput)
                       \/ Includes(normalizedInput,
                                   SelectSeq(normalizedPattern,
                                             LAMBDA ch : ch \notin {"*", "?"}))
                  ELSE RegExpTest(compiled.regex, normalizedInput)
    IN  IF compiled.isNegated THEN ~tested ELSE tested

\* matchRegex once compilePattern has returned or thrown (c).
matchRegexCompiled(c, options, normalizedInput, normalizedPattern, originalInput, originalPattern) ==
    IF c.threw THEN Throw("SyntaxError", c.cache)
    ELSE Return(Scored(RegexMatched(c.entry, options, normalizedInput,
                                    normalizedPattern),
                       originalInput, originalPattern),
                c.cache)

matchRegex(cache, options, normalizedInput, normalizedPattern, originalInput, originalPattern) ==
    matchRegexCompiled(compilePattern(cache, normalizedPattern, options), options,
                       normalizedInput, normalizedPattern, originalInput,
                       originalPattern)

\* One turn of the loop of matchSegments once compilePattern has returned or
\* thrown (c): the loop's variables after it.
SegmentStep(acc, inputSegment, c) ==
    IF c.threw
    THEN [acc EXCEPT !.threw = TRUE, !.matched = FALSE, !.broke = TRUE,
                     !.cache = c.cache]
    ELSE IF ~RegExpTest(c.entry.regex, inputSegment)
    THEN [acc EXCEPT !.matched = FALSE, !.broke = TRUE, !.cache = c.cache]
    ELSE [acc EXCEPT !.segments = Append(@, inputSegment), !.cache = c.cache]

\* The loop of matchSegments, failing in addition an input that has more
\* segments than the pattern.
RECURSIVE SegmentLoop_ExactLength(_, _, _, _, _)
SegmentLoop_ExactLength(options, inputSegments, patternSegments, i, acc) ==
    IF acc.broke THEN acc
    ELSE IF i > Len(patternSegments)
    THEN [acc EXCEPT !.matched = Len(inputSegments) = Len(patternSegments)]
    ELSE IF i > Len(inputSegments)
    THEN [acc EXCEPT !.matched = FALSE, !.broke = TRUE]
    ELSE SegmentLoop_ExactLength(options, inputSegments, patternSegments, i + 1,
                                 SegmentStep(acc, inputSegments[i],
                                             compilePattern(acc.cache,
                                                            patternSegments[i],
                                                            options)))

\* The loop of matchSegments from index i on; acc holds its variables
\* [threw, matched, broke, segments, cache].
RECURSIVE SegmentLoop(_, _, _, _, _)
SegmentLoop(options, inputSegments, patternSegments, i, acc) ==
    IF acc.broke \/ i > Len(patternSegments) THEN acc
    ELSE IF i > Len(inputSegments)
    THEN [acc EXCEPT !.matched = FALSE, !.broke = TRUE]
    ELSE SegmentLoop(options, inputSegments, patternSegments, i + 1,
                     SegmentStep(acc, inputSegments[i],
                                 compilePattern(acc.cache, patternSegments[i],
                                                options)))

\* matchSegments after its loop.
SegmentsResult(loop, normalizedInput, normalizedPattern) ==
    LET isNegated == StartsWith(normalizedPattern, "!")
        matched == IF isNegated THEN ~loop.matched ELSE loop.matched
    IN  IF loop.threw THEN Throw("SyntaxError", loop.cache)
        ELSE Return([matched |-> matched, input |-> normalizedInput,
                     hasPattern |-> TRUE, pattern |-> normalizedPattern,
                     hasScore |-> TRUE, score |-> BoolScore(matched),
                     hasSegments |-> TRUE, segments |-> loop.segments],
                    loop.cache)

matchSegments(cache, options, normalizedInput, normalizedPattern) ==
    IF options.separator = <<>> THEN Throw("SeparatorRequired", cache)
    ELSE SegmentsResult(
             SegmentLoop(options,
                         splitIntoSegments(normalizedInput, options.separator),
                         splitIntoSegments(getBasePattern(normalizedPattern),
                                           options.separator),
                         1,
                         [threw |-> FALSE, matched |-> TRUE, broke |-> FALSE,
                          segments |-> <<>>, cache |-> cache]),
             normalizedInput, normalizedPattern)

\* The "Handle fuzzy matching" return of matchSingle.
FuzzyResult(fuzzyResult, isNegated, input, pattern) ==
    MatchResult(IF isNegated THEN ~fuzzyResult.matched ELSE fuzzyResult.matched,
                input, pattern, fuzzyResult.score)

\* matchSingle from the two normalized strings on, with the mode chosen
\* before the empty pattern is looked at.
matchNormalized_ModeFirst(cache, options, input, pattern, normalizedInput, normalizedPattern) ==
    IF options.fuzzyMatch
    THEN Return(FuzzyResult(fuzzyMatch(normalizedInput,
                                       getBasePattern(normalizedPattern),
                                       options.fuzzyThreshold),
                            StartsWith(normalizedPattern, "!"), input, pattern),
                cache)
    ELSE IF options.separator # <<>>
    THEN matchSegments(cache, options, normalizedInput, normalizedPattern)
    ELSE IF normalizedPattern = <<>> \/ normalizedPattern = <<"!">>
    THEN Return(Scored(normalizedInput = <<>>, input, pattern), cache)
    ELSE matchRegex(cache, options, normalizedInput, normalizedPattern, input,
                    pattern)

\* matchSingle from the two normalized strings on, with segment mode ahead
\* of fuzzy mode.
matchNormalized_SegmentFirst(cache, options, input, pattern, normalizedInput, normalizedPattern) ==
    IF normalizedPattern = <<>> \/ normalizedPattern = <<"!">>
    THEN Return(Scored(normalizedInput = <<>>, input, pattern), cache)
    ELSE IF options.separator # <<>>
    THEN matchSegments(cache, options, normalizedInput, normalizedPattern)
    ELSE IF options.fuzzyMatch
    THEN Return(FuzzyResult(fuzzyMatch(normalizedInput,
                                       getBasePattern(normalizedPattern),
                                       options.fuzzyThreshold),
                            StartsWith(normalizedPattern, "!"), input, pattern),
                cache)
    ELSE matchRegex(cache, options, normalizedInput, normalizedPattern, input,
                    pattern)

\* matchSingle from the two normalized strings on.
matchNormalized(cache, options, input, pattern, normalizedInput, normalizedPattern) ==
    IF normalizedPattern = <<>> \/ normalizedPattern = <<"!">>
    THEN Return(Scored(normalizedInput = <<>>, input, pattern), cache)
    ELSE IF options.fuzzyMatch
    THEN Return(FuzzyResult(fuzzyMatch(normalizedInput,
                                       getBasePattern(normalizedPattern),
                                       options.fuzzyThreshold),
                            StartsWith(normalizedPattern, "!"), input, pattern),
                cache)
    ELSE IF options.separator # <<>>
    THEN matchSegments(cache, options, normalizedInput, normalizedPattern)
    ELSE matchRegex(cache, options, normalizedInput, normalizedPattern, input,
                    pattern)

\* matchSingle validating the pattern before it looks at the depth.
matchSingle_ValidateFirst(cache, options, input, pattern, depth) ==
    IF ~validatePattern(pattern).valid THEN Throw("InvalidPattern", cache)
    ELSE IF depth > options.maxDepth THEN Throw("RecursionLimit", cache)
    ELSE matchNormalized(cache, options, input, pattern.val,
                         normalizeString(input, options),
                         normalizeString(pattern.val, options))

matchSingle(cache, options, input, pattern, depth) ==
    IF depth > options.maxDepth THEN Throw("RecursionLimit", cache)
    ELSE IF ~validatePattern(pattern).valid THEN Throw("InvalidPattern", cache)
    ELSE matchNormalized(cache, options, input, pattern.val,
                         normalizeString(input, options),
                         normalizeString(pattern.val, options))

\* The array of the map after one more matchSingle call (r), leaving out the
\* patterns on which matchSingle throws.
MapCollect_SkipThrown(acc, r) ==
    IF r.threw THEN [acc EXCEPT !.cache = r.cache]
    ELSE [threw |-> FALSE, error |-> "", results |-> Append(acc.results, r.result),
          cache |-> r.cache]

\* The array of the map after one more matchSingle call (r); a throw ends the
\* map.
MapCollect(acc, r) ==
    IF r.threw
    THEN [threw |-> TRUE, error |-> r.error, results |-> <<>>, cache |-> r.cache]
    ELSE [threw |-> FALSE, error |-> "", results |-> Append(acc.results, r.result),
          cache |-> r.cache]

\* patterns.map((pattern) => this.matchSingle(input, pattern)) from index i on;
\* acc is [threw, error, results, cache] so far.
RECURSIVE MapSingle(_, _, _, _, _)
MapSingle(options, input, patterns, i, acc) ==
    IF acc.threw \/ i > Len(patterns) THEN acc
    ELSE MapSingle(options, input, patterns, i + 1,
                   MapCollect(acc, matchSingle(acc.cache, options, input,
                                               patterns[i], 0)))

\* positiveResults.reduce((best, current) =>
\*     current.score > best.score ? current : best), from index i on.
RECURSIVE ReduceBest(_, _, _)
ReduceBest(results, i, best) ==
    IF i > Len(results) THEN best
    ELSE ReduceBest(results, i + 1,
                    IF RatGT(results[i].score, best.score) THEN results[i] ELSE best)

IsNegativeResult(result) == StartsWith(result.pattern, "!")

PositiveResults(results) == SelectSeq(results, LAMBDA r : ~IsNegativeResult(r))

NegativeResults(results) == SelectSeq(results, IsNegativeResult)

\* The verdict of matchMultiple with allPatterns taken as off in both branches.
AggregateMatched_AnyForAll(options, results) ==
    LET positiveResults == PositiveResults(results)
        negativeResults == NegativeResults(results)
        hasPositiveMatch ==
            \/ Len(positiveResults) = 0
            \/ \E k \in 1..Len(positiveResults) : positiveResults[k].matched
        hasNegativeMatch ==
            \E k \in 1..Len(negativeResults) : ~negativeResults[k].matched
    IN  hasPositiveMatch /\ ~hasNegativeMatch

\* The verdict of matchMultiple with the first positive pattern deciding
\* for the positive group.
AggregateMatched_FirstPositive(options, results) ==
    LET positiveResults == PositiveResults(results)
        negativeResults == NegativeResults(results)
    IN  /\ Len(positiveResults) = 0 \/ positiveResults[1].matched
        /\ \A k \in 1..Len(negativeResults) : negativeResults[k].matched

\* The verdict of matchMultiple from the per-pattern results.
AggregateMatched(options, results) ==
    LET positiveResults == PositiveResults(results)
        negativeResults == NegativeResults(results)
        allPositiveMatch ==
            \/ Len(positiveResults) = 0
            \/ \A k \in 1..Len(positiveResults) : positiveResults[k].matched
        noNegativeMatch ==
            \A k \in 1..Len(negativeResults) : negativeResults[k].matched
        hasPositiveMatch ==
            \/ Len(positiveResults) = 0
            \/ \E k \in 1..Len(positiveResults) : positiveResults[k].matched
        hasNegativeMatch ==
            \E k \in 1..Len(negativeResults) : ~negativeResults[k].matched
    IN  IF options.allPatterns
        THEN allPositiveMatch /\ noNegativeMatch
        ELSE hasPositiveMatch /\ ~hasNegativeMatch

\* The aggregate of matchMultiple: the verdict and the representative.
Aggregate(options, input, results) ==
    LET positiveResults == PositiveResults(results)
        matched == AggregateMatched(options, results)
        somePositive == \E k \in 1..Len(positiveResults) : positiveResults[k].matched
        firstMatched == CHOOSE k \in 1..Len(positiveResults) :
                            /\ positiveResults[k].matched
                            /\ \A j \in 1..(k - 1) : ~positiveResults[j].matched
        hasRepresentative ==
            IF options.allPatterns
            THEN matched /\ Len(positiveResults) > 0
            ELSE matched /\ somePositive
        representative ==
            IF options.allPatterns
            THEN ReduceBest(positiveResults, 2, positiveResults[1])
            ELSE positiveResults[firstMatched]
    IN  [matched |-> matched, input |-> input,
         hasPattern |-> hasRepresentative /\ representative.pattern # <<>>,
         pattern |-> IF hasRepresentative THEN representative.pattern ELSE <<>>,
         hasScore |-> TRUE,
         score |-> IF hasRepresentative THEN representative.score ELSE Rat(0, 1),
         hasSegments |-> FALSE, segments |-> <<>>]

\* matchMultiple after its map.
Combined(mapped, options, input) ==
    IF mapped.threw THEN Throw(mapped.error, mapped.cache)
    ELSE Return(Aggregate(options, input, mapped.results), mapped.cache)

matchMultiple(cache, options, input, patterns) ==
    IF Len(patterns) = 0 THEN Return([NoResult EXCEPT !.input = input], cache)
    ELSE Combined(MapSingle(options, input, patterns, 1,
                            [threw |-> FALSE, error |-> "", results |-> <<>>,
                             cache |-> cache]),
                  options, input)

\* ------------------------------------------------------------------------
\* matcher.ts: the public functions.  An argument that is a string or an
\* array of strings is [isArray, items]; a lone string has one item.
\* ------------------------------------------------------------------------

One(x) == [isArray |-> FALSE, items |-> <<x>>]

Many(xs) == [isArray |-> TRUE, items |-> xs]

normalizeInput(input) == IF input.isArray THEN input.items ELSE <<input.items[1]>>

normalizePatterns(patterns) ==
    IF patterns.isArray THEN patterns.items ELSE <<patterns.items[1]>>

Returned(value, cache) ==
    [threw |-> FALSE, error |-> "", value |-> value, cache |-> cache]

Thrown(error, cache) ==
    [threw |-> TRUE, error |-> error, value |-> <<>>, cache |-> cache]

\* One turn of the loop of matcher once matchMultiple has returned or thrown
\* (r): the results so far, or the error.
MatcherStep(acc, input, r) ==
    IF r.threw THEN Thrown(r.error, r.cache)
    ELSE Returned(IF r.result.matched THEN Append(acc.value, input) ELSE acc.value,
                  r.cache)

\* The loop of matcher, returning at the first input that matches.
RECURSIVE MatcherLoop_StopAtFirst(_, _, _, _, _)
MatcherLoop_StopAtFirst(options, inputs, patterns, i, acc) ==
    IF acc.threw \/ i > Len(inputs) \/ acc.value # <<>> THEN acc
    ELSE MatcherLoop_StopAtFirst(
             options, inputs, patterns, i + 1,
             MatcherStep(acc, inputs[i],
                         matchMultiple(acc.cache, options, inputs[i], patterns)))

\* The for loop of matcher from input i on.
RECURSIVE MatcherLoop(_, _, _, _, _)
MatcherLoop(options, inputs, patterns, i, acc) ==
    IF acc.threw \/ i > Len(inputs) THEN acc
    ELSE MatcherLoop(
             options, inputs, patterns, i + 1,
             MatcherStep(acc, inputs[i],
                         matchMultiple(acc.cache, options, inputs[i], patterns)))

matcher(cache, inputs, patterns, options) ==
    IF Len(normalizeInput(inputs)) = 0 \/ Len(normalizePatterns(patterns)) = 0
    THEN Returned(<<>>, cache)
    ELSE MatcherLoop(MatchingEngine(options), normalizeInput(inputs),
                     normalizePatterns(patterns), 1, Returned(<<>>, cache))

\* One turn of the loop of isMatch once matchMultiple has returned or thrown
\* (r): whether the loop returns true here, or the error.
IsMatchStep(r) ==
    IF r.threw THEN Thrown(r.error, r.cache)
    ELSE Returned(r.result.matched, r.cache)

\* The loop of isMatch, returning what the first input gives.
RECURSIVE IsMatchLoop_FirstOnly(_, _, _, _, _)
IsMatchLoop_FirstOnly(options, inputs, patterns, i, acc) ==
    IF acc.threw \/ acc.value \/ i > Len(inputs) \/ i > 1 THEN acc
    ELSE IsMatchLoop_FirstOnly(
             options, inputs, patterns, i + 1,
             IsMatchStep(matchMultiple(acc.cache, options, inputs[i], patterns)))

\* The for loop of isMatch from input i on.
RECURSIVE IsMatchLoop(_, _, _, _, _)
IsMatchLoop(options, inputs, patterns, i, acc) ==
    IF acc.threw \/ acc.value \/ i > Len(inputs) THEN acc
    ELSE IsMatchLoop(
             options, inputs, patterns, i + 1,
             IsMatchStep(matchMultiple(acc.cache, options, inputs[i], patterns)))

isMatch(cache, inputs, patterns, options) ==
    IF Len(normalizeInput(inputs)) = 0 /\ Len(normalizePatterns(patterns)) = 0
    THEN Returned(FALSE, cache)
    ELSE IF Len(normalizeInput(inputs)) = 0 \/ Len(normalizePatterns(patterns)) = 0
    THEN Returned(FALSE, cache)
    ELSE IsMatchLoop(MatchingEngine(options), normalizeInput(inputs),
                     normalizePatterns(patterns), 1, Returned(FALSE, cache))

\* One turn of the loop of matchAdvanced once matchMultiple has returned or
\* thrown (r); the metadata of a result is the engine's options (its
\* processingTime, a clock reading, is left out).
MatchAdvancedStep(acc, options, r) ==
    IF r.threw THEN Thrown(r.error, r.cache)
    ELSE Returned(IF r.result.matched
                  THEN Append(acc.value, [result |-> r.result,
                                          metadata |-> getOptions(options)])
                  ELSE acc.value,
                  r.cache)

\* The for loop of matchAdvanced from input i on.
RECURSIVE MatchAdvancedLoop(_, _, _, _, _)
MatchAdvancedLoop(options, inputs, patterns, i, acc) ==
    IF acc.threw \/ i > Len(inputs) THEN acc
    ELSE MatchAdvancedLoop(
             options, inputs, patterns, i + 1,
             MatchAdvancedStep(acc, options,
                               matchMultiple(acc.cache, options, inputs[i],
                                             patterns)))

matchAdvanced(cache, inputs, patterns, options) ==
    IF Len(normalizeInput(inputs)) = 0 \/ Len(normalizePatterns(patterns)) = 0
    THEN Returned(<<>>, cache)
    ELSE MatchAdvancedLoop(MatchingEngine(options), normalizeInput(inputs),
                           normalizePatterns(patterns), 1, Returned(<<>>, cache))

\* fuzzyMatch of matcher.ts (utils.ts has a fuzzyMatch of its own).
matcher_fuzzyMatch(cache, inputs, patterns, threshold, options) ==
    matchAdvanced(cache, inputs, patterns,
                  Spread(options, [fuzzyMatch |-> TRUE, fuzzyThreshold |-> threshold]))

matchIgnoreCase(cache, inputs, patterns, options) ==
    matcher(cache, inputs, patterns, Spread(options, [caseSensitive |-> FALSE]))

partialMatch(cache, inputs, patterns, options) ==
    matcher(cache, inputs, patterns, Spread(options, [partialMatch |-> TRUE]))

segmentMatch(cache, inputs, patterns, separator, options) ==
    matcher(cache, inputs, patterns, Spread(options, [separator |-> separator]))

\* ------------------------------------------------------------------------
\* State: the shared pattern cache, the call being made and what it gave.
\* ------------------------------------------------------------------------

VARIABLES cache, call, ret

vars == <<cache, call, ret>>

\* All strings over an alphabet, up to a length.
RECURSIVE StringsOver(_, _)
StringsOver(chars, n) ==
    IF n = 0 THEN {<<>>}
    ELSE LET shorter == StringsOver(chars, n - 1)
         IN  shorter \cup {Append(s, c) : s \in shorter, c \in chars}

\* All sequences over a set, with lengths from..to.
SeqsOver(S, from, to) == UNION {[1..n -> S] : n \in from..to}

Call(op, inputs, patterns, options, depth) ==
    [op |-> op, inputs |-> inputs, patterns |-> patterns, options |-> options,
     depth |-> depth]

NotCalled == [done |-> FALSE, threw |-> FALSE, error |-> "", value |-> <<>>]

Done(outcome, value) ==
    [done |-> TRUE, threw |-> outcome.threw, error |-> outcome.error, value |-> value]

\* The pattern and the input of a call on one pattern and one input.
ThePattern == call.patterns.items[1]

TheInput == call.inputs.items[1]

\* ------------------------------------------------------------------------
\* Actions: one per exported operation, applied to the arguments of the call.
\* ------------------------------------------------------------------------

DoValidatePattern ==
    /\ call.op = "validatePattern"
    /\ ~ret.done
    /\ ret' = Done(Returned(<<>>, cache), validatePattern(ThePattern))
    /\ UNCHANGED <<cache, call>>

DoMatchSingle ==
    /\ call.op = "matchSingle"
    /\ ~ret.done
    /\ \E r \in {matchSingle(cache, MatchingEngine(call.options), TheInput,
                           ThePattern, call.depth)} :
          /\ cache' = r.cache
          /\ ret' = Done(r, r.result)
    /\ UNCHANGED call

DoMatchMultiple ==
    /\ call.op = "matchMultiple"
    /\ ~ret.done
    /\ \E r \in {matchMultiple(cache, MatchingEngine(call.options), TheInput,
                              call.patterns.items)} :
          /\ cache' = r.cache
          /\ ret' = Done(r, r.result)
    /\ UNCHANGED call

DoMatcher ==
    /\ call.op = "matcher"
    /\ ~ret.done
    /\ \E r \in {matcher(cache, call.inputs, call.patterns, call.options)} :
          /\ cache' = r.cache
          /\ ret' = Done(r, r.value)
    /\ UNCHANGED call

DoIsMatch ==
    /\ call.op = "isMatch"
    /\ ~ret.done
    /\ \E r \in {isMatch(cache, call.inputs, call.patterns, call.options)} :
          /\ cache' = r.cache
          /\ ret' = Done(r, r.value)
    /\ UNCHANGED call

DoMatchAdvanced ==
    /\ call.op = "matchAdvanced"
    /\ ~ret.done
    /\ \E r \in {matchAdvanced(cache, call.inputs, call.patterns, call.options)} :
          /\ cache' = r.cache
          /\ ret' = Done(r, r.value)
    /\ UNCHANGED call

\* fuzzyMatch of utils.ts called on its own: the threshold is the
\* fuzzyThreshold of the call's options.
DoFuzzyMatch ==
    /\ call.op = "fuzzyMatch"
    /\ ~ret.done
    /\ ret' = Done(Returned(<<>>, cache),
                   fuzzyMatch(TheInput, ThePattern.val, call.options.fuzzyThreshold))
    /\ UNCHANGED <<cache, call>>

\* segmentMatch of matcher.ts: the separator is the third argument, the other
\* options of the call are the fourth.
DoSegmentMatch ==
    /\ call.op = "segmentMatch"
    /\ ~ret.done
    /\ \E r \in {segmentMatch(cache, call.inputs, call.patterns,
                              call.options.separator,
                              [k \in DOMAIN call.options \ {"separator"} |->
                                  call.options[k]])} :
          /\ cache' = r.cache
          /\ ret' = Done(r, r.value)
    /\ UNCHANGED call

\* partialMatch of matcher.ts.
DoPartialMatch ==
    /\ call.op = "partialMatch"
    /\ ~ret.done
    /\ \E r \in {partialMatch(cache, call.inputs, call.patterns, call.options)} :
          /\ cache' = r.cache
          /\ ret' = Done(r, r.value)
    /\ UNCHANGED call

\* levenshteinDistance of utils.ts called on its own.
DoLevenshteinDistance ==
    /\ call.op = "levenshteinDistance"
    /\ ~ret.done
    /\ ret' = Done(Returned(<<>>, cache), levenshteinDistance(TheInput, ThePattern.val))
    /\ UNCHANGED <<cache, call>>

\* calculateSimilarity of utils.ts called on its own.
DoCalculateSimilarity ==
    /\ call.op = "calculateSimilarity"
    /\ ~ret.done
    /\ ret' = Done(Returned(<<>>, cache), calculateSimilarity(TheInput, ThePattern.val))
    /\ UNCHANGED <<cache, call>>

MaxUpdates == 2

MaxEngineCache == 1

\* The actions of one MatchingEngine object: call.options is its options
\* field and call.updates the constructor argument followed by the arguments
\* of the setOptions calls made so far.

\* engine.setOptions(options): returns nothing. At most MaxUpdates updates
\* are followed.
DoSetOptions(options) ==
    /\ Len(call.updates) <= MaxUpdates
    /\ call' = [call EXCEPT !.op = "setOptions",
                            !.options = setOptions(call.options, options),
                            !.updates = Append(call.updates, options)]
    /\ UNCHANGED <<cache, ret>>

\* engine.matchSingle(input, pattern); calls are followed while the cache
\* holds at most MaxEngineCache entries.
DoEngineMatchSingle(input, pattern) ==
    /\ Len(cache) <= MaxEngineCache
    /\ \E r \in {matchSingle(cache, call.options, input, pattern, 0)} :
          /\ cache' = r.cache
          /\ ret' = Done(r, r.result)
    /\ call' = [call EXCEPT !.op = "matchSingle", !.inputs = One(input),
                            !.patterns = One(pattern)]

\* engine.matchMultiple(input, patterns)
DoEngineMatchMultiple(input, patterns) ==
    /\ Len(cache) <= MaxEngineCache
    /\ \E r \in {matchMultiple(cache, call.options, input, patterns)} :
          /\ cache' = r.cache
          /\ ret' = Done(r, r.result)
    /\ call' = [call EXCEPT !.op = "matchMultiple", !.inputs = One(input),
                            !.patterns = Many(patterns)]

\* engine.getOptions()
DoGetOptions ==
    /\ ret' = Done(Returned(<<>>, cache), OptionsObject(call.options))
    /\ call' = [call EXCEPT !.op = "getOptions"]
    /\ UNCHANGED cache

\* The caller assigns fields of the object getOptions returned.
DoMutateCopy(options) ==
    /\ call.op = "getOptions"
    /\ ret' = [ret EXCEPT !.value.options = Spread(ret.value.options, options)]
    /\ call' = [call EXCEPT !.op = "mutate",
                            !.options = IF ret.value.alias
                                        THEN Spread(call.options, options)
                                        ELSE call.options]
    /\ UNCHANGED cache

\* ------------------------------------------------------------------------
\* SpecValidate: validatePattern, and matchSingle with the default options,
\* on every pattern value up to MaxValidateLen characters.
\* ------------------------------------------------------------------------

MaxValidateLen == 3

ValidateChars == {"a", ".", "*", "?", "!", "+", "(", BS}

ValidateValues ==
    {Str(s) : s \in StringsOver(ValidateChars, MaxValidateLen)} \cup {NotAString}

ValidateInputs == {<<>>, <<"a">>}

InitValidate ==
    /\ cache = <<>>
    /\ ret = NotCalled
    /\ call \in {Call("validatePattern", One(<<>>), One(p), <<>>, 0) :
                   p \in ValidateValues}
          \cup {Call("matchSingle", One(x), One(p), <<>>, 0) :
                   x \in ValidateInputs, p \in ValidateValues}

NextValidate == DoValidatePattern \/ DoMatchSingle

SpecValidate == InitValidate /\ [][NextValidate]_vars

\* The characters validatePattern is documented to refuse when unescaped.
RefusedChars == {"+", "^", "$", "{", "}", "(", ")", "|", "[", "]", BS}

UnescapedAt(s, i) == s[i] \in RefusedChars /\ (i = 1 \/ s[i - 1] # BS)

\* C8: validatePattern(p) returns valid = false iff p is not a string or some
\* occurrence of one of + ^ $ { } ( ) | [ ] \ in p is at index 0 or is not
\* immediately preceded by a backslash; every other string is valid.
C8_ValidatePattern ==
    (call.op = "validatePattern" /\ ret.done) =>
        (ret.value.valid =
            ~(\/ ThePattern.type # "string"
              \/ \E i \in 1..Len(ThePattern.val) : UnescapedAt(ThePattern.val, i)))

\* validatePattern has refused a string whose "+" follows a backslash.
C8_Witness ==
    /\ call.op = "validatePattern"
    /\ ret.done
    /\ ThePattern = Str(<<"a", BS, "+">>)
    /\ ~ret.value.valid

\* A string that uses the backslash only to escape, and escapes at least one
\* character with it: every backslash is followed by one of + ^ $ { } ( ) | [ ]
\* and every one of these follows a backslash.
EscapesOnly(s) ==
    /\ \E i \in 1..Len(s) : s[i] = BS
    /\ \A i \in 1..Len(s) :
          /\ s[i] = BS => (i < Len(s) /\ s[i + 1] \in RefusedChars \ {BS})
          /\ s[i] \in RefusedChars \ {BS} => (i > 1 /\ s[i - 1] = BS)

\* C9: a pattern whose every + ^ $ { } ( ) | [ ] is immediately preceded by a
\* backslash passes validatePattern and is accepted by matchSingle without an
\* error.
C9_EscapedAccepted ==
    (ret.done /\ ThePattern.type = "string" /\ EscapesOnly(ThePattern.val)) =>
        /\ call.op = "validatePattern" => ret.value.valid
        /\ call.op = "matchSingle" => ~ret.threw

\* ------------------------------------------------------------------------
\* SpecRegex: matchSingle in regex mode (fuzzyMatch off, no separator), under
\* every setting of caseSensitive, accentInsensitive, wordBoundary and
\* partialMatch.
\* ------------------------------------------------------------------------

MaxRegexPatternLen == 3

MaxRegexInputLen == 2

RegexPatternChars == {"a", "*", "!", CombAcute}

RegexInputChars == {"a", "A", EAcute}

RegexOptions ==
    [caseSensitive : BOOLEAN, accentInsensitive : BOOLEAN, wordBoundary : BOOLEAN,
     partialMatch : BOOLEAN]

InitRegex ==
    /\ cache = <<>>
    /\ ret = NotCalled
    /\ call \in {Call("matchSingle", One(x), One(Str(p)), o, 0) :
                   x \in StringsOver(RegexInputChars, MaxRegexInputLen),
                   p \in StringsOver(RegexPatternChars, MaxRegexPatternLen),
                   o \in RegexOptions}

NextRegex == DoMatchSingle

SpecRegex == InitRegex /\ [][NextRegex]_vars

InRegexMode(options) ==
    ~MatchingEngine(options).fuzzyMatch /\ MatchingEngine(options).separator = <<>>

\* What matchSingle gives, from an empty cache, for the input of the call and
\* another pattern under the options of the call.
SingleOn(pattern) ==
    matchSingle(<<>>, MatchingEngine(call.options), TheInput, Str(pattern), 0)

\* A matchSingle call in regex mode, on a pattern "!" + p, has returned.
NegatedRegexCallDone ==
    /\ call.op = "matchSingle"
    /\ ret.done
    /\ ~ret.threw
    /\ InRegexMode(call.options)
    /\ StartsWith(ThePattern.val, "!")

\* C3 as stated: in regex mode, under every setting of the remaining options,
\* matchSingle(x, "!" + p).matched is the negation of matchSingle(x, p).matched.
C3_NegationInvertsAlways ==
    NegatedRegexCallDone =>
        (ret.value.matched = ~SingleOn(Slice1(ThePattern.val)).result.matched)

\* C3 amended: the same, with partialMatch off and for a p whose normalized
\* form is not empty and does not itself begin with "!".
C3_NegationInverts ==
    (/\ NegatedRegexCallDone
     /\ ~MatchingEngine(call.options).partialMatch
     /\ LET np == normalizeString(Slice1(ThePattern.val),
                                  MatchingEngine(call.options))
        IN  np # <<>> /\ ~StartsWith(np, "!")) =>
        (ret.value.matched = ~SingleOn(Slice1(ThePattern.val)).result.matched)

\* matchSingle("a", "!a") has returned "not matched" with partialMatch off.
C3_Witness ==
    /\ NegatedRegexCallDone
    /\ ~MatchingEngine(call.options).partialMatch
    /\ ThePattern.val = <<"!", "a">>
    /\ TheInput = <<"a">>
    /\ ~ret.value.matched

\* ------------------------------------------------------------------------
\* SpecMulti: matchMultiple, and matcher on one input, on every list of one
\* to MaxPatterns patterns.  A pattern is a head (nothing, "!", or "!" after a
\* combining accent) and a body; the options run over allPatterns, the three
\* modes and accentInsensitive.
\* ------------------------------------------------------------------------

MaxPatterns == 2

MultiHeads == {<<>>, <<"!">>, <<CombAcute, "!">>}

MultiBodies == {<<>>, <<"a">>, <<"b">>, <<"*">>}

MultiPatterns == {Str(h \o b) : h \in MultiHeads, b \in MultiBodies}

MultiInputs == {<<>>, <<"a">>, <<"b">>}

MultiOptions ==
    [allPatterns : BOOLEAN, fuzzyMatch : BOOLEAN, separator : {<<>>, <<"/">>},
     accentInsensitive : BOOLEAN]

InitMulti ==
    /\ cache = <<>>
    /\ ret = NotCalled
    /\ call \in {Call(op, One(x), Many(ps), o, 0) :
                   op \in {"matchMultiple", "matcher"},
                   x \in MultiInputs,
                   ps \in SeqsOver(MultiPatterns, 1, MaxPatterns),
                   o \in MultiOptions}

NextMulti == DoMatchMultiple \/ DoMatcher

SpecMulti == InitMulti /\ [][NextMulti]_vars

\* The patterns of the call without, and with, a leading "!".
PositivePatterns ==
    {k \in 1..Len(call.patterns.items) : ~StartsWith(call.patterns.items[k].val, "!")}

NegativePatterns ==
    {k \in 1..Len(call.patterns.items) : StartsWith(call.patterns.items[k].val, "!")}

SingleMatched(k) == SingleOn(call.patterns.items[k].val).result.matched

MultiDone(allPatterns) ==
    /\ call.op = "matchMultiple"
    /\ ret.done
    /\ ~ret.threw
    /\ MatchingEngine(call.options).allPatterns = allPatterns

\* C1: with allPatterns off, matchMultiple(input, patterns).matched is true iff
\* (no pattern lacks a leading "!" or some such pattern has matchSingle.matched)
\* and no pattern with a leading "!" has matchSingle.matched = false.
C1_AnyPatterns ==
    MultiDone(FALSE) =>
        (ret.value.matched =
            (/\ PositivePatterns = {} \/ \E k \in PositivePatterns : SingleMatched(k)
             /\ ~\E k \in NegativePatterns : ~SingleMatched(k)))

\* C2: with allPatterns on, matchMultiple(input, patterns).matched is true iff
\* every pattern, with or without a leading "!", has matchSingle.matched; and
\* matcher never returns an input that fails one of the positive patterns.
C2_AllPatterns ==
    /\ MultiDone(TRUE) =>
          (ret.value.matched =
              (/\ \A k \in PositivePatterns : SingleMatched(k)
               /\ \A k \in NegativePatterns : SingleMatched(k)))
    /\ (/\ call.op = "matcher"
        /\ ret.done
        /\ ~ret.threw
        /\ MatchingEngine(call.options).allPatterns
        /\ \E k \in PositivePatterns : ~SingleMatched(k)) =>
          (ret.value = <<>>)

\* With allPatterns on, matchMultiple has refused an input that matches one
\* positive pattern of the list and fails another.
C2_Witness ==
    /\ MultiDone(TRUE)
    /\ \E k \in PositivePatterns : SingleMatched(k)
    /\ \E k \in PositivePatterns : ~SingleMatched(k)
    /\ ~ret.value.matched

\* ------------------------------------------------------------------------
\* SpecApi: matcher, isMatch and matchAdvanced on a lone input or a list of up
\* to MaxInputs inputs, and matchMultiple on a lone input, with a lone pattern
\* or a list of up to MaxPatterns patterns, some of them invalid.
\* ------------------------------------------------------------------------

MaxInputs == 2

ApiInputs == {<<>>, <<"A">>, <<"b">>}

ApiPatterns ==
    {Str(<<"a">>), Str(<<"*">>), Str(<<"!", "a">>), Str(<<"+">>), NotAString}

ApiOptions == [allPatterns : BOOLEAN, separator : {<<>>, <<".">>}]

ApiInputArgs ==
    {One(x) : x \in ApiInputs} \cup {Many(xs) : xs \in SeqsOver(ApiInputs, 0, MaxInputs)}

ApiPatternArgs ==
    {One(q) : q \in ApiPatterns}
        \cup {Many(qs) : qs \in SeqsOver(ApiPatterns, 0, MaxPatterns)}

InitApi ==
    /\ cache = <<>>
    /\ ret = NotCalled
    /\ call \in {Call(op, xs, qs, o, 0) :
                   op \in {"matcher", "isMatch", "matchAdvanced"},
                   xs \in ApiInputArgs, qs \in ApiPatternArgs, o \in ApiOptions}
          \cup {Call("matchMultiple", One(x), Many(qs), o, 0) :
                   x \in ApiInputs, qs \in SeqsOver(ApiPatterns, 0, MaxPatterns),
                   o \in ApiOptions}

NextApi == DoMatcher \/ DoIsMatch \/ DoMatchAdvanced \/ DoMatchMultiple

SpecApi == InitApi /\ [][NextApi]_vars

\* The lists the call works on.
CallInputs == normalizeInput(call.inputs)

CallPatterns == normalizePatterns(call.patterns)

\* What matchMultiple gives, from an empty cache, for one input and the
\* patterns and options of the call.
MultiOn(input) ==
    matchMultiple(<<>>, MatchingEngine(call.options), input, CallPatterns)

MultiMatched(input) == ~MultiOn(input).threw /\ MultiOn(input).result.matched

\* C4: matcher returns the inputs, as supplied, for which matchMultiple gives
\* matched = true, in their order and with their duplicates; for an empty input
\* list or an empty pattern list it returns the empty list and raises nothing.
C4_MatcherFilters ==
    (call.op = "matcher" /\ ret.done) =>
        /\ (Len(CallInputs) = 0 \/ Len(CallPatterns) = 0) =>
              (~ret.threw /\ ret.value = <<>>)
        /\ ~ret.threw => (ret.value = SelectSeq(CallInputs, MultiMatched))

\* matcher has returned both copies of an input, in the spelling supplied.
C4_Witness ==
    /\ call.op = "matcher"
    /\ ret.done
    /\ ~ret.threw
    /\ CallInputs = <<<<"A">>, <<"A">>>>
    /\ ret.value = <<<<"A">>, <<"A">>>>

\* C5: isMatch returns true iff some input has matchMultiple.matched = true;
\* for an empty input list or an empty pattern list it returns false and
\* raises nothing.
C5_IsMatchAny ==
    (call.op = "isMatch" /\ ret.done) =>
        /\ (Len(CallInputs) = 0 \/ Len(CallPatterns) = 0) =>
              (~ret.threw /\ ret.value = FALSE)
        /\ ~ret.threw =>
              (ret.value = \E i \in 1..Len(CallInputs) : MultiMatched(CallInputs[i]))

\* isMatch has returned true for a list whose first input does not match.
C5_Witness ==
    /\ call.op = "isMatch"
    /\ ret.done
    /\ ~ret.threw
    /\ Len(CallInputs) = 2
    /\ ~MultiMatched(CallInputs[1])
    /\ ret.value = TRUE

AllPatternsValid == \A k \in 1..Len(CallPatterns) : validatePattern(CallPatterns[k]).valid

\* C6: isMatch returns true exactly when some input matches all of the given
\* patterns, whatever the options, for a list of two or more positive patterns.
C6_IsMatchAllPatterns ==
    (/\ call.op = "isMatch"
     /\ ret.done
     /\ ~ret.threw
     /\ Len(CallInputs) > 0
     /\ Len(CallPatterns) >= 2
     /\ AllPatternsValid
     /\ \A k \in 1..Len(CallPatterns) : ~StartsWith(CallPatterns[k].val, "!")) =>
        (ret.value =
            \E i \in 1..Len(CallInputs) : \A k \in 1..Len(CallPatterns) :
                LET r == matchSingle(<<>>, MatchingEngine(call.options),
                                     CallInputs[i], CallPatterns[k], 0)
                IN  ~r.threw /\ r.result.matched)

\* C7: with a non-empty input list, a pattern that is not a string or fails
\* validatePattern makes matchMultiple, matcher, isMatch and matchAdvanced raise,
\* wherever it stands in the list and whatever the other patterns give; when it
\* stands first the error is the validation error and no pattern was compiled.
C7_InvalidPatternAborts ==
    (/\ ret.done
     /\ call.op \in {"matchMultiple", "matcher", "isMatch", "matchAdvanced"}
     /\ Len(CallInputs) > 0
     /\ ~AllPatternsValid) =>
        /\ ret.threw
        /\ ~validatePattern(CallPatterns[1]).valid =>
              (ret.error = "InvalidPattern" /\ cache = <<>>)

\* matcher has raised on ["!a", "+"] for an input that "!a" alone excludes.
C7_Witness ==
    /\ call.op = "matcher"
    /\ ret.done
    /\ CallPatterns = <<Str(<<"!", "a">>), Str(<<"+">>)>>
    /\ CallInputs = <<<<"A">>>>
    /\ ret.threw

\* ------------------------------------------------------------------------
\* SpecCache: any sequence of compilePattern, clearPatternCache and
\* getCacheStats calls.  A compilePattern call is on a pattern that is not
\* cached, on one that is (the oldest or the newest entry), or on
\* one whose RegExp does not compile.  The cache does not look inside a key, so
\* the patterns not yet cached are taken in one fixed order, out of CacheKeys
\* patterns: the numbers 0, 1, 2, ... written with the letters of CacheDigits.
\* ------------------------------------------------------------------------

CacheKeys == 1003

\* The letters the patterns of this specification are written with.
CacheDigits ==
    <<"a", "b", "c", "d", "e", "f", "g", "h", "i", "j", "k", "l", "m", "n", "o", "p",
      "q", "r", "s", "t", "u", "v", "w", "x", "y", "z", "A", "B", "C", "D", "E", "F">>

RECURSIVE NthPattern(_)
NthPattern(n) ==
    IF n = 0 THEN <<>>
    ELSE Append(NthPattern(n \div Len(CacheDigits)),
                CacheDigits[(n % Len(CacheDigits)) + 1])

RECURSIVE PatternNumber(_)
PatternNumber(pattern) ==
    IF pattern = <<>> THEN 0
    ELSE Len(CacheDigits) * PatternNumber(SubSeq(pattern, 1, Len(pattern) - 1))
         + (CHOOSE d \in 0..(Len(CacheDigits) - 1) :
                CacheDigits[d + 1] = pattern[Len(pattern)])

\* The next pattern that is not cached, the one after the newest entry, while
\* there is one left.
FreshPatterns ==
    LET next == IF cache = <<>> THEN 0
                ELSE PatternNumber(cache[Len(cache)].key.pattern) + 1
    IN  IF next < CacheKeys THEN {NthPattern(next)} ELSE {}

CachedPatterns ==
    {cache[i].key.pattern : i \in {1, Len(cache)} \cap (1..Len(cache))}

\* compilePattern("*", {separator: "."}) throws: "^.*?*$" does not compile.
UncompilableCall == [pattern |-> <<"*">>, options |-> [separator |-> <<".">>]]

CompileCalls ==
    {[pattern |-> q, options |-> <<>>] : q \in FreshPatterns \cup CachedPatterns}
        \cup {UncompilableCall}

InitCache ==
    /\ cache = <<>>
    /\ call = Call("none", One(<<>>), One(Str(<<>>)), <<>>, 0)
    /\ ret = NotCalled

DoCompilePattern ==
    \E c \in CompileCalls :
        \E r \in {compilePattern(cache, c.pattern, c.options)} :
            /\ cache' = r.cache
            /\ call' = Call("compilePattern", One(<<>>), One(Str(c.pattern)),
                            c.options, 0)
            /\ ret' = Done(IF r.threw THEN Thrown("SyntaxError", r.cache)
                                       ELSE Returned(<<>>, r.cache),
                            r.entry)

DoClearPatternCache ==
    /\ cache' = clearPatternCache(cache)
    /\ call' = Call("clearPatternCache", One(<<>>), One(Str(<<>>)), <<>>, 0)
    /\ ret' = Done(Returned(<<>>, cache'), <<>>)

DoGetCacheStats ==
    /\ call' = Call("getCacheStats", One(<<>>), One(Str(<<>>)), <<>>, 0)
    /\ ret' = Done(Returned(<<>>, cache), getCacheStats(cache))
    /\ UNCHANGED cache

NextCache == DoCompilePattern \/ DoClearPatternCache \/ DoGetCacheStats

SpecCache == InitCache /\ [][NextCache]_vars

\* C10: the cache holds between 0 and 1000 entries after every call;
\* getCacheStats reports maxSize 1000 and the current number of entries and
\* leaves the cache as it was; clearPatternCache leaves it empty.
C10_CacheBounded ==
    [][/\ Len(cache') \in 0..1000
       /\ call'.op = "getCacheStats" =>
             (cache' = cache /\ ret'.value = [size |-> Len(cache), maxSize |-> 1000])
       /\ call'.op = "clearPatternCache" => Len(cache') = 0]_vars

\* A compilePattern call on a new pattern has returned with the cache full and
\* its first entries evicted.
C10_Witness ==
    /\ call.op = "compilePattern"
    /\ ret.done
    /\ ~ret.threw
    /\ Len(cache) = 1000
    /\ cache[1].key.pattern # NthPattern(0)
    /\ cache[Len(cache)].key.pattern = ThePattern.val

\* The key of the compilePattern call a step makes, and whether it is cached
\* when the call is made.
SteppedKey == CacheKey(call'.patterns.items[1].val, call'.options)

SteppedHit == \E i \in 1..Len(cache) : cache[i].key = SteppedKey

\* C11: eviction is FIFO by insertion order.  A compilePattern call on a key
\* that is not cached, made with 1000 entries in the cache, removes exactly
\* one entry, the one inserted earliest: the others keep their order, with at
\* most the new entry after them.  A call on a cached key leaves the cache,
\* and so the order of eviction, as it was.
C11_FifoEviction ==
    [][call'.op = "compilePattern" =>
          IF SteppedHit THEN cache' = cache
          ELSE Len(cache) = 1000 =>
                  /\ Len(cache') \in {999, 1000}
                  /\ SubSeq(cache', 1, 999) = Tail(cache)
                  /\ \A i \in 1..Len(cache') : cache'[i].key # cache[1].key]_vars

\* A call on the oldest entry of a full cache, after the first evictions, has
\* returned and the entry is still the oldest.
C11_Witness ==
    /\ call.op = "compilePattern"
    /\ ret.done
    /\ ~ret.threw
    /\ Len(cache) = 1000
    /\ cache[1].key.pattern = ThePattern.val
    /\ cache[1].key.pattern # NthPattern(0)

\* C12: in every cache state, a second compilePattern call with the pattern
\* and options of a call that has just returned (first) returns the entry the
\* first returned, out of the cache, and leaves the cache as the first left it.
C12_CacheDeterminism ==
    \A c \in CompileCalls :
        \A first \in {compilePattern(cache, c.pattern, c.options)} :
            \A second \in {compilePattern(first.cache, c.pattern, c.options)} :
                ~first.threw =>
                    /\ ~second.threw
                    /\ second.entry = first.entry
                    /\ \E i \in CacheHits(first.cache, CacheKey(c.pattern, c.options)) :
                          first.cache[i].entry = second.entry
                    /\ Len(second.cache) = Len(first.cache)
                    /\ second.cache = first.cache

\* The cache is full and a pattern that is not cached is left to call.
C12_Witness ==
    /\ Len(cache) = 1000
    /\ \E q \in FreshPatterns :
          /\ CacheHits(cache, CacheKey(q, <<>>)) = {}
          /\ ~compilePattern(cache, q, <<>>).threw

\* ------------------------------------------------------------------------
\* SpecWarm: one matchSingle, matchMultiple or matcher call made with the
\* cache in a state earlier calls can leave it in: empty or holding 1000
\* entries, and then up to MaxWarmEntries more compilations, of the patterns
\* of this specification under its options, in any order.
\* ------------------------------------------------------------------------

MaxWarmEntries == 1

WarmPatterns == {<<"a">>, <<"!", "a">>, <<"a", "/", "*">>}

WarmInputs == {<<"A">>, <<"a", "/", "b">>}

WarmOptions == [caseSensitive : BOOLEAN, separator : {<<>>, <<"/">>}]

\* The cache after 1000 compilePattern(p) calls on 1000 patterns.
FullCache ==
    [i \in 1..MAX_CACHE_SIZE |->
        [key |-> CacheKey(NthPattern(i), <<>>),
         entry |-> compilePattern(<<>>, NthPattern(i), <<>>).entry]]

WarmKeys ==
    {[pattern |-> q, options |-> MatchingEngine(o)] :
        q \in {<<"a">>, <<"!", "a">>, <<"*">>}, o \in WarmOptions}

\* The cache after compilePattern calls on a sequence of keys, from a cache.
RECURSIVE Warmed(_, _)
Warmed(from, keys) ==
    IF keys = <<>> THEN from
    ELSE Warmed(compilePattern(from, Head(keys).pattern, Head(keys).options).cache,
                Tail(keys))

WarmCaches ==
    {Warmed(from, keys) : from \in {<<>>, FullCache},
                          keys \in SeqsOver(WarmKeys, 0, MaxWarmEntries)}

WarmCalls ==
    {Call("matchSingle", One(x), One(Str(q)), o, 0) :
        x \in WarmInputs, q \in WarmPatterns, o \in WarmOptions}
        \cup {Call("matchMultiple", One(x), Many(<<Str(q1), Str(q2)>>), o, 0) :
                 x \in WarmInputs, q1 \in WarmPatterns, q2 \in WarmPatterns,
                 o \in WarmOptions}
        \cup {Call("matcher", Many(<<x1, x2>>), One(Str(q)), o, 0) :
                 x1 \in WarmInputs, x2 \in WarmInputs, q \in WarmPatterns,
                 o \in WarmOptions}

InitWarm ==
    /\ cache \in WarmCaches
    /\ call \in WarmCalls
    /\ ret = NotCalled

NextWarm == DoMatchSingle \/ DoMatchMultiple \/ DoMatcher

SpecWarm == InitWarm /\ [][NextWarm]_vars

\* What the call gives when it is made with the cache empty.
FromEmptyCache ==
    CASE call.op = "matchSingle" ->
           LET r == matchSingle(<<>>, MatchingEngine(call.options), TheInput,
                                ThePattern, call.depth)
           IN  [threw |-> r.threw, error |-> r.error, value |-> r.result]
      [] call.op = "matchMultiple" ->
           LET r == matchMultiple(<<>>, MatchingEngine(call.options), TheInput,
                                  call.patterns.items)
           IN  [threw |-> r.threw, error |-> r.error, value |-> r.result]
      [] call.op = "matcher" ->
           LET r == matcher(<<>>, call.inputs, call.patterns, call.options)
           IN  [threw |-> r.threw, error |-> r.error, value |-> r.value]

\* C13: whatever the cache holds when the call is made, matchSingle,
\* matchMultiple and matcher give what they give with the cache empty (the
\* result with its matched, score, pattern and segments, or the error); and
\* every cached entry is the regex and the isNegated flag that compiling its
\* pattern under its options afresh gives.
C13_CacheTransparent ==
    /\ ret.done =>
          /\ ret.threw = FromEmptyCache.threw
          /\ ret.error = FromEmptyCache.error
          /\ ret.value = FromEmptyCache.value
    /\ \A i \in 1..Len(cache) :
          (cache[i].key.options # <<>>) =>
              cache[i].entry
                  = compilePattern(<<>>, cache[i].key.pattern, cache[i].key.options).entry

\* A case-sensitive matchSingle("A", "a") has returned "not matched" from a
\* full cache that holds "a" compiled without case sensitivity.
C13_Witness ==
    /\ call.op = "matchSingle"
    /\ ret.done
    /\ Len(cache) = MAX_CACHE_SIZE
    /\ MatchingEngine(call.options).caseSensitive
    /\ ThePattern.val = <<"a">>
    /\ TheInput = <<"A">>
    /\ ~ret.value.matched
    /\ \E i \in 1..Len(cache) :
          /\ cache[i].key.pattern = <<"a">>
          /\ cache[i].key.options # <<>>
          /\ ~cache[i].key.options.caseSensitive
          /\ cache[i].key.options.separator = call.options.separator

\* ------------------------------------------------------------------------
\* SpecFuzzy: fuzzyMatch of utils.ts, and matchSingle in fuzzy mode, on every
\* input and pattern of up to MaxFuzzyLen characters, for the thresholds 0,
\* 0.2 (the default), 0.5 and 1.  A similarity is 1 - distance / maxLength
\* with maxLength <= 4 here: on these the fraction and the JavaScript number
\* compare alike with each of the four thresholds.
\* ------------------------------------------------------------------------

MaxFuzzyLen == 2

FuzzyInputChars == {"a", "b", "A"}

FuzzyPatternChars == {"a", "b", "A", "*", "!"}

FuzzyThresholds == {Rat(0, 1), Rat(1, 5), Rat(1, 2), Rat(1, 1)}

FuzzyOptions ==
    [fuzzyMatch : {TRUE}, fuzzyThreshold : FuzzyThresholds, caseSensitive : BOOLEAN]

InitFuzzy ==
    /\ cache = <<>>
    /\ ret = NotCalled
    /\ call \in {Call(op, One(x), One(Str(q)), o, 0) :
                   op \in {"fuzzyMatch", "matchSingle"},
                   x \in StringsOver(FuzzyInputChars, MaxFuzzyLen),
                   q \in StringsOver(FuzzyPatternChars, MaxFuzzyLen),
                   o \in FuzzyOptions}

NextFuzzy == DoFuzzyMatch \/ DoMatchSingle

SpecFuzzy == InitFuzzy /\ [][NextFuzzy]_vars

\* The pattern with every "*", "?" and "!" removed.
Cleaned(pattern) == SelectSeq(pattern, LAMBDA c : c \notin {"*", "?", "!"})

\* What the three rules of fuzzyMatch give on an input and a cleaned pattern.
FuzzyRules(input, cleaned, threshold) ==
    IF cleaned = <<>> THEN [matched |-> TRUE, score |-> Rat(1, 1)]
    ELSE IF Includes(input, cleaned) THEN [matched |-> TRUE, score |-> Rat(9, 10)]
    ELSE [matched |-> RatGE(calculateSimilarity(input, cleaned), threshold),
          score |-> calculateSimilarity(input, cleaned)]

FuzzyCallDone == call.op = "fuzzyMatch" /\ ret.done

SameFuzzyResult(a, b) == a.matched = b.matched /\ RatEQ(a.score, b.score)

PositiveFuzzyCallDone ==
    /\ call.op = "matchSingle"
    /\ ret.done
    /\ ~ret.threw
    /\ ThePattern.val # <<>>
    /\ ~StartsWith(ThePattern.val, "!")

\* C15: in fuzzy mode with fuzzyThreshold = 0 every input matches every
\* non-empty positive pattern, and with fuzzyThreshold = 1 an input matches a
\* positive pattern only if the normalized input equals the pattern text
\* without its wildcard glyphs.
C15_ThresholdMeaning ==
    PositiveFuzzyCallDone =>
        /\ call.options.fuzzyThreshold = Rat(0, 1) => ret.value.matched
        /\ (call.options.fuzzyThreshold = Rat(1, 1) /\ ret.value.matched) =>
              normalizeString(TheInput, MatchingEngine(call.options))
                  = Cleaned(normalizeString(ThePattern.val,
                                            MatchingEngine(call.options)))

\* ------------------------------------------------------------------------
\* SpecSegment: matchSingle and segmentMatch in segment mode. Inputs and
\* patterns are written over an alphabet with a placeholder for the
\* separator, and every call is made once per separator of Separators with
\* the placeholder replaced by it.

MaxSegmentLen == 3

SEP == "<sep>"

Separators == {"/", "."}

SegmentInputChars == {"a", "b", SEP}

SegmentPatternChars == {"a", "*", "!", SEP}

\* The string s with the placeholder replaced by the separator character.
WithSeparator(s, separator) ==
    [i \in 1..Len(s) |-> IF s[i] = SEP THEN separator ELSE s[i]]

SegmentOptions(separator, caseSensitive) ==
    [separator |-> <<separator>>, caseSensitive |-> caseSensitive]

InitSegment ==
    /\ cache = <<>>
    /\ ret = NotCalled
    /\ call \in {Call(op, One(WithSeparator(x, separator)),
                      One(Str(WithSeparator(q, separator))),
                      SegmentOptions(separator, cs), 0) :
                   op \in {"matchSingle", "segmentMatch"},
                   x \in StringsOver(SegmentInputChars, MaxSegmentLen),
                   q \in StringsOver(SegmentPatternChars, MaxSegmentLen),
                   separator \in Separators,
                   cs \in BOOLEAN}

NextSegment == DoMatchSingle \/ DoSegmentMatch

SpecSegment == InitSegment /\ [][NextSegment]_vars

\* The maximal runs of characters of s other than the character c, in order.
RECURSIVE Runs(_, _, _)
Runs(s, c, run) ==
    IF s = <<>> THEN IF run = <<>> THEN <<>> ELSE <<run>>
    ELSE IF s[1] = c
    THEN (IF run = <<>> THEN <<>> ELSE <<run>>) \o Runs(Tail(s), c, <<>>)
    ELSE Runs(Tail(s), c, Append(run, s[1]))

\* Wildcard matching: "*" stands for any run of characters, "?" for one
\* character, every other character for itself.
RECURSIVE Glob(_, _)
Glob(p, s) ==
    IF p = <<>> THEN s = <<>>
    ELSE IF p[1] = "*"
    THEN Glob(Tail(p), s) \/ (s # <<>> /\ Glob(p, Tail(s)))
    ELSE /\ s # <<>>
         /\ p[1] = "?" \/ p[1] = s[1]
         /\ Glob(Tail(p), Tail(s))

WithoutBang(p) == IF StartsWith(p, "!") THEN Tail(p) ELSE p

\* The number of leading positions, from k on, at which the input segment
\* matches the pattern segment.
RECURSIVE MatchedPrefix(_, _, _, _)
MatchedPrefix(dropBang, inputSegments, patternSegments, k) ==
    IF /\ k <= Len(patternSegments)
       /\ k <= Len(inputSegments)
       /\ Glob(IF dropBang THEN WithoutBang(patternSegments[k])
               ELSE patternSegments[k],
               inputSegments[k])
    THEN MatchedPrefix(dropBang, inputSegments, patternSegments, k + 1)
    ELSE k - 1

\* What segment mode is to return for a normalized input and pattern;
\* dropBang tells whether a pattern segment loses a leading "!" of its own
\* before it is matched.
SegmentRules(dropBang, input, pattern, separator) ==
    LET inputSegments   == Runs(input, separator, <<>>)
        patternSegments == Runs(WithoutBang(pattern), separator, <<>>)
        k == MatchedPrefix(dropBang, inputSegments, patternSegments, 1)
    IN  [matched  |-> (k = Len(patternSegments)) # StartsWith(pattern, "!"),
         segments |-> SubSeq(inputSegments, 1, k)]

SegmentCallDone == call.op = "matchSingle" /\ ret.done

NormalizedInput == normalizeString(TheInput, MatchingEngine(call.options))

NormalizedPattern == normalizeString(ThePattern.val, MatchingEngine(call.options))

SameSegmentResult(rules) ==
    /\ ~ret.threw
    /\ ret.value.matched = rules.matched
    /\ ret.value.segments = rules.segments

SegmentRulesApply ==
    /\ call.options.separator[1] \notin RegexSpecialChars \cup {"*", "?"}
    /\ NormalizedPattern \notin {<<>>, <<"!">>}

Renamed(s, from, to) == [i \in 1..Len(s) |-> IF s[i] = from THEN to ELSE s[i]]

SegmentMatchDone == call.op = "segmentMatch" /\ ret.done

\* The inputs the same segmentMatch call returns when its separator is
\* renamed to "/" in the input, the pattern and the separator argument,
\* written with the call's own separator again.
ReturnedWithSlash ==
    LET separator == call.options.separator[1]
        renamed   == segmentMatch(<<>>,
                                  One(Renamed(TheInput, separator, "/")),
                                  One(Str(Renamed(ThePattern.val, separator, "/"))),
                                  <<"/">>,
                                  [caseSensitive |-> call.options.caseSensitive])
    IN  [threw |-> renamed.threw,
         value |-> [i \in 1..Len(renamed.value) |->
                       Renamed(renamed.value[i], "/", separator)]]

\* C17: segmentMatch never raises, and returns the inputs it returns when
\* the separator is "/" throughout.
C17_AnySeparator ==
    SegmentMatchDone =>
        /\ ~ret.threw
        /\ ~ReturnedWithSlash.threw
        /\ ret.value = ReturnedWithSlash.value

\* ------------------------------------------------------------------------
\* SpecEmpty: matchSingle in every mode on patterns that normalize to the
\* empty string or to "!", and on some that do not.

MaxEmptyLen == 2

EmptyPatternChars == {"!", CombAcute, "a"}

EmptyInputChars == {"A", CombAcute}

EmptyOptions ==
    [fuzzyMatch : BOOLEAN, separator : {<<>>, <<"/">>}, caseSensitive : BOOLEAN,
     accentInsensitive : BOOLEAN, partialMatch : BOOLEAN, maxDepth : {0, 10}]

InitEmpty ==
    /\ cache = <<>>
    /\ ret = NotCalled
    /\ call \in {Call("matchSingle", One(x), One(Str(q)), o, depth) :
                   x \in StringsOver(EmptyInputChars, MaxEmptyLen),
                   q \in StringsOver(EmptyPatternChars, MaxEmptyLen),
                   o \in EmptyOptions,
                   depth \in {0, 1}}

NextEmpty == DoMatchSingle

SpecEmpty == InitEmpty /\ [][NextEmpty]_vars

\* A matchSingle call on a pattern that normalizes to "" or to "!" is over.
EmptyPatternCallDone ==
    /\ call.op = "matchSingle"
    /\ ret.done
    /\ NormalizedPattern \in {<<>>, <<"!">>}

\* The result of the empty-pattern rule.
EmptyPatternResult ==
    /\ ~ret.threw
    /\ ret.value.matched = (NormalizedInput = <<>>)
    /\ RatEQ(ret.value.score,
             IF NormalizedInput = <<>> THEN Rat(1, 1) ELSE Rat(0, 1))

\* C18 as it is worded: whatever the options and the call.
C18_EmptyPatternAsGiven == EmptyPatternCallDone => EmptyPatternResult

\* C18: in every mode, a matchSingle call whose depth does not exceed
\* maxDepth and whose normalized pattern is "" or "!" raises nothing and
\* returns matched = (normalized input is empty), with score 1 when matched
\* and 0 otherwise.
C18_EmptyPattern ==
    (EmptyPatternCallDone /\ call.depth <= MatchingEngine(call.options).maxDepth)
        => EmptyPatternResult

\* Fuzzy mode with a separator set: the pattern "!" followed by a combining
\* accent and the input of one combining accent both normalize away.
C18_Witness ==
    /\ EmptyPatternCallDone
    /\ call.options.fuzzyMatch
    /\ call.options.separator = <<"/">>
    /\ ThePattern.val = <<"!", CombAcute>>
    /\ TheInput = <<CombAcute>>
    /\ ~ret.threw
    /\ ret.value.matched
    /\ RatEQ(ret.value.score, Rat(1, 1))

\* ------------------------------------------------------------------------
\* SpecPartial: regex mode with and without partialMatch, through matchSingle
\* and through partialMatch.

MaxPartialPatternLen == 2

MaxPartialInputLen == 3

PartialPatternChars == {"a", "b", "*", "?", "!"}

PartialInputChars == {"a", "b"}

InitPartial ==
    /\ cache = <<>>
    /\ ret = NotCalled
    /\ call \in {Call("matchSingle", One(x), One(Str(q)), [partialMatch |-> pm], 0) :
                   x \in StringsOver(PartialInputChars, MaxPartialInputLen),
                   q \in StringsOver(PartialPatternChars, MaxPartialPatternLen),
                   pm \in BOOLEAN}
          \cup {Call("partialMatch", One(x), One(Str(q)), <<>>, 0) :
                   x \in StringsOver(PartialInputChars, MaxPartialInputLen),
                   q \in StringsOver(PartialPatternChars, MaxPartialPatternLen)}

NextPartial == DoMatchSingle \/ DoPartialMatch

SpecPartial == InitPartial /\ [][NextPartial]_vars

\* Some contiguous substring of s, the empty one included, wildcard-matches p.
SomeSubstringMatches(p, s) ==
    \E i \in 1..(Len(s) + 1) : \E j \in (i - 1)..Len(s) : Glob(p, SubSeq(s, i, j))

\* A call with partialMatch on, on a non-empty pattern without a leading
\* "!", is over; the empty pattern is under the empty-pattern rule.
PartialCallDone ==
    /\ ret.done
    /\ call.op = "partialMatch" \/ call.options.partialMatch
    /\ ThePattern.val # <<>>
    /\ ~StartsWith(ThePattern.val, "!")

\* The verdict of the call: matched of matchSingle, or the input being
\* among the inputs partialMatch returns.
PartialVerdict ==
    IF call.op = "matchSingle" THEN ret.value.matched ELSE ret.value = <<TheInput>>

\* C19: with partialMatch on, a non-negated pattern matches an input iff some
\* contiguous substring of the normalized input wildcard-matches the pattern.
C19_PartialIsSubstringSearch ==
    PartialCallDone =>
        /\ ~ret.threw
        /\ PartialVerdict = SomeSubstringMatches(toLowerCase(ThePattern.val),
                                                 toLowerCase(TheInput))

\* ------------------------------------------------------------------------
\* SpecCase: matchSingle in regex, segment and fuzzy mode, with and without
\* caseSensitive, on inputs and patterns of letters in both cases.

MaxCaseLen == 2

CaseChars == {"a", "A", "/"}

CaseOptions ==
    [caseSensitive : BOOLEAN, fuzzyMatch : BOOLEAN, separator : {<<>>, <<"/">>}]

InitCase ==
    /\ cache = <<>>
    /\ ret = NotCalled
    /\ call \in {Call("matchSingle", One(x), One(Str(q)), o, 0) :
                   x \in StringsOver(CaseChars, MaxCaseLen),
                   q \in StringsOver(CaseChars, MaxCaseLen),
                   o \in CaseOptions}

NextCase == DoMatchSingle

SpecCase == InitCase /\ [][NextCase]_vars

\* A matchSingle call is over whose input differs from its pattern in
\* letter case and in nothing else.
CaseVariantCallDone ==
    /\ call.op = "matchSingle"
    /\ ret.done
    /\ TheInput # ThePattern.val
    /\ toLowerCase(TheInput) = toLowerCase(ThePattern.val)

\* C20: an input that differs from the pattern only in letter case matches
\* when caseSensitive is false; when caseSensitive is true it does not match
\* in regex and segment mode, and in fuzzy mode it is scored as a different
\* string, by the similarity of the two strings as they are written.
C20_CaseSensitive ==
    CaseVariantCallDone =>
        /\ ~ret.threw
        /\ IF ~call.options.caseSensitive THEN ret.value.matched
           ELSE IF call.options.fuzzyMatch
           THEN SameFuzzyResult(ret.value,
                                FuzzyRules(TheInput, ThePattern.val,
                                           DefaultOptions.fuzzyThreshold))
           ELSE ~ret.value.matched

\* ------------------------------------------------------------------------
\* SpecDistance: levenshteinDistance and calculateSimilarity on every pair
\* of strings up to MaxDistanceLen characters.

MaxDistanceLen == 3

DistanceChars == {"a", "b"}

InitDistance ==
    /\ cache = <<>>
    /\ ret = NotCalled
    /\ call \in {Call(op, One(a), One(Str(b)), <<>>, 0) :
                   op \in {"levenshteinDistance", "calculateSimilarity"},
                   a \in StringsOver(DistanceChars, MaxDistanceLen),
                   b \in StringsOver(DistanceChars, MaxDistanceLen)}

NextDistance == DoLevenshteinDistance \/ DoCalculateSimilarity

SpecDistance == InitDistance /\ [][NextDistance]_vars

DistanceCallDone == call.op = "levenshteinDistance" /\ ret.done

\* C21: distance(a, b) = distance(b, a), distance(a, a) = 0,
\* distance("", b) = |b| and distance(a, "") = |a|.
C21_DistanceSymmetric ==
    DistanceCallDone =>
        /\ ret.value = levenshteinDistance(ThePattern.val, TheInput)
        /\ TheInput = ThePattern.val => ret.value = 0
        /\ TheInput = <<>> => ret.value = Len(ThePattern.val)
        /\ ThePattern.val = <<>> => ret.value = Len(TheInput)

\* Two different non-empty strings of different lengths: distance("ab", "b")
\* is 1.
C21_Witness ==
    /\ DistanceCallDone
    /\ TheInput = <<"a", "b">>
    /\ ThePattern.val = <<"b">>
    /\ ret.value = 1

SimilarityCallDone == call.op = "calculateSimilarity" /\ ret.done

\* C22: similarity(a, b) lies in [0, 1], that is 0 <= distance(a, b) <=
\* max(|a|, |b|); it is 1 when a = b and 0 when exactly one of a and b is
\* empty.
C22_SimilarityBounds ==
    SimilarityCallDone =>
        /\ RatGE(ret.value, Rat(0, 1))
        /\ RatGE(Rat(1, 1), ret.value)
        /\ levenshteinDistance(TheInput, ThePattern.val) \in
               0..Max2(Len(TheInput), Len(ThePattern.val))
        /\ TheInput = ThePattern.val => RatEQ(ret.value, Rat(1, 1))
        /\ (TheInput = <<>>) # (ThePattern.val = <<>>) => RatEQ(ret.value, Rat(0, 1))

\* similarity("a", "bbb") is 0: three edits on a longest length of three.
C22_Witness ==
    /\ SimilarityCallDone
    /\ TheInput = <<"a">>
    /\ ThePattern.val = <<"b", "b", "b">>
    /\ RatEQ(ret.value, Rat(0, 1))

\* ------------------------------------------------------------------------
\* SpecDepth: matchSingle at every depth up to MaxDepthArg and matchMultiple,
\* under several values of maxDepth, on valid and invalid patterns.

MaxDepthArg == 2

MaxDepthPatternLen == 1

DepthLimits == {-1, 0, 1, 10}

DepthPatterns ==
    {Str(q) : q \in StringsOver({"a", "+"}, MaxDepthPatternLen)} \cup {NotAString}

DepthInputs == {<<>>, <<"a">>}

InitDepth ==
    /\ cache = <<>>
    /\ ret = NotCalled
    /\ call \in {Call("matchSingle", One(x), One(q), [maxDepth |-> limit], depth) :
                   x \in DepthInputs, q \in DepthPatterns, limit \in DepthLimits,
                   depth \in 0..MaxDepthArg}
          \cup {Call("matchMultiple", One(x), Many(qs), [maxDepth |-> limit], 0) :
                   x \in DepthInputs, qs \in SeqsOver(DepthPatterns, 0, 2),
                   limit \in DepthLimits}

NextDepth == DoMatchSingle \/ DoMatchMultiple

SpecDepth == InitDepth /\ [][NextDepth]_vars

RecursionErrorRaised == ret.threw /\ ret.error = "RecursionLimit"

\* C23: matchSingle raises the recursion-limit error iff depth > maxDepth,
\* an invalid pattern included, and matchMultiple evaluates its patterns at
\* depth 0: it raises that error iff it has a pattern and 0 > maxDepth.
C23_DepthGuard ==
    /\ (call.op = "matchSingle" /\ ret.done) =>
          (RecursionErrorRaised <=> call.depth > call.options.maxDepth)
    /\ (call.op = "matchMultiple" /\ ret.done) =>
          (RecursionErrorRaised <=>
              (Len(call.patterns.items) > 0 /\ 0 > call.options.maxDepth))

\* A pattern that is not valid, at a depth above maxDepth: the error is the
\* recursion error.
C23_Witness ==
    /\ call.op = "matchSingle"
    /\ ret.done
    /\ ThePattern = Str(<<"+">>)
    /\ call.depth = 2
    /\ call.options.maxDepth = 1
    /\ RecursionErrorRaised

\* ------------------------------------------------------------------------
\* SpecMode: matchSingle under every combination of the options that select
\* a mode or belong to one.

MaxModeLen == 2

ModePatternChars == {"a", "*", "/", "!"}

ModeInputChars == {"a", "b", "/"}

ModeOptions ==
    [fuzzyMatch : BOOLEAN, separator : {<<>>, <<"/">>}, partialMatch : BOOLEAN,
     wordBoundary : BOOLEAN]

InitMode ==
    /\ cache = <<>>
    /\ ret = NotCalled
    /\ call \in {Call("matchSingle", One(x), One(Str(q)), o, 0) :
                   x \in StringsOver(ModeInputChars, MaxModeLen),
                   q \in StringsOver(ModePatternChars, MaxModeLen),
                   o \in ModeOptions}

NextMode == DoMatchSingle

SpecMode == InitMode /\ [][NextMode]_vars

\* A matchSingle call on a pattern that is neither "" nor "!" is over.
ModeCallDone ==
    /\ call.op = "matchSingle"
    /\ ret.done
    /\ NormalizedPattern \notin {<<>>, <<"!">>}

\* The call returned what the same call returns, from an empty cache, under
\* the options changed as given.
SameUnder(changes) ==
    \A r \in {matchSingle(<<>>, MatchingEngine(Spread(call.options, changes)),
                          TheInput, ThePattern, 0)} :
        /\ ret.threw = r.threw
        /\ ret.error = r.error
        /\ ret.value = r.result

\* C24: with fuzzyMatch set, the separator, partialMatch and wordBoundary
\* have no influence on the result of matchSingle; with fuzzyMatch off and a
\* separator set, partialMatch has none; and the result is that of fuzzy
\* mode when fuzzyMatch is set, of segment mode when only a separator is,
\* and of regex mode when neither is.
C24_ModePriority ==
    ModeCallDone =>
        /\ call.options.fuzzyMatch =>
              /\ SameUnder([separator |-> <<>>, partialMatch |-> FALSE,
                            wordBoundary |-> FALSE])
              /\ ~ret.threw
              /\ ret.value =
                     FuzzyResult(fuzzyMatch(NormalizedInput,
                                            getBasePattern(NormalizedPattern),
                                            DefaultOptions.fuzzyThreshold),
                                 StartsWith(NormalizedPattern, "!"),
                                 TheInput, ThePattern.val)
        /\ (~call.options.fuzzyMatch /\ call.options.separator # <<>>) =>
              /\ SameUnder([partialMatch |-> FALSE])
              /\ \A r \in {matchSegments(<<>>, MatchingEngine(call.options),
                                         NormalizedInput, NormalizedPattern)} :
                    ret.threw = r.threw /\ ret.value = r.result
        /\ (~call.options.fuzzyMatch /\ call.options.separator = <<>>) =>
              \A r \in {matchRegex(<<>>, MatchingEngine(call.options),
                                   NormalizedInput, NormalizedPattern, TheInput,
                                   ThePattern.val)} :
                  ret.threw = r.threw /\ ret.value = r.result

\* Every option set at once: the input "a/" against the pattern "a" is a
\* substring hit of fuzzy mode, score 0.9.
C24_Witness ==
    /\ ModeCallDone
    /\ call.options = [fuzzyMatch |-> TRUE, separator |-> <<"/">>,
                       partialMatch |-> TRUE, wordBoundary |-> TRUE]
    /\ TheInput = <<"a", "/">>
    /\ ThePattern.val = <<"a">>
    /\ ret.value.matched
    /\ RatEQ(ret.value.score, Rat(9, 10))

\* ------------------------------------------------------------------------
\* The representative of matchMultiple, on the calls of SpecMulti.

SingleScore(k) == SingleOn(call.patterns.items[k].val).result.score

\* The first pattern of the list, among those without a leading "!", that
\* matchSingle matches.
FirstMatchedPositive ==
    {k \in PositivePatterns :
        /\ SingleMatched(k)
        /\ \A j \in PositivePatterns : j < k => ~SingleMatched(j)}

\* The pattern without a leading "!" of the highest matchSingle score, the
\* earliest one on ties.
BestPositive ==
    {k \in PositivePatterns :
        \A j \in PositivePatterns :
            /\ RatGE(SingleScore(k), SingleScore(j))
            /\ j < k => RatGT(SingleScore(k), SingleScore(j))}

Representatives ==
    IF MatchingEngine(call.options).allPatterns THEN BestPositive
    ELSE FirstMatchedPositive

MultipleReturned == call.op = "matchMultiple" /\ ret.done /\ ~ret.threw

\* C25: a matched aggregate over a list with a positive pattern has the score
\* of its representative (allPatterns off: the first positive pattern that
\* matched; on: the positive pattern of the highest score, the earliest on
\* ties) and no other pattern than the representative's; every other
\* aggregate has score 0 and no pattern.
C25_Representative ==
    MultipleReturned =>
        IF ret.value.matched /\ PositivePatterns # {}
        THEN \E k \in Representatives :
                /\ RatEQ(ret.value.score, SingleScore(k))
                /\ ret.value.hasPattern =>
                      ret.value.pattern = call.patterns.items[k].val
        ELSE RatEQ(ret.value.score, Rat(0, 1)) /\ ~ret.value.hasPattern

\* C26: a matched aggregate over a list with a positive pattern carries a
\* pattern field, which is the text of one of the supplied patterns, and the
\* score of that pattern.
C26_PatternAttached ==
    (MultipleReturned /\ ret.value.matched /\ PositivePatterns # {}) =>
        /\ ret.value.hasPattern
        /\ \E k \in 1..Len(call.patterns.items) :
              /\ ret.value.pattern = call.patterns.items[k].val
              /\ RatEQ(ret.value.score, SingleScore(k))

\* ------------------------------------------------------------------------
\* SpecEngine: one MatchingEngine object that is constructed, updated with
\* setOptions up to MaxUpdates times, read with getOptions and used for
\* matchSingle and matchMultiple in between.

EngineUpdates ==
    {[caseSensitive |-> TRUE], [partialMatch |-> TRUE],
     [caseSensitive |-> FALSE, partialMatch |-> FALSE]}

ConstructorOptions == {<<>>, [caseSensitive |-> TRUE]}

CopyMutations == {[caseSensitive |-> TRUE], [partialMatch |-> TRUE]}

EngineInputs == {<<"A">>, <<"a", "b">>}

EnginePatterns == {Str(<<"a">>), Str(<<"!", "A">>)}

EnginePatternLists == {<<Str(<<"a">>)>>, <<Str(<<"a">>), Str(<<"!", "A">>)>>}

InitEngine ==
    /\ cache = <<>>
    /\ ret = NotCalled
    /\ call \in {[op |-> "constructor", inputs |-> One(<<>>),
                  patterns |-> One(Str(<<>>)), options |-> MatchingEngine(o),
                  depth |-> 0, updates |-> <<o>>] : o \in ConstructorOptions}

NextEngine ==
    \/ \E o \in EngineUpdates : DoSetOptions(o)
    \/ \E x \in EngineInputs, q \in EnginePatterns : DoEngineMatchSingle(x, q)
    \/ \E x \in EngineInputs, qs \in EnginePatternLists :
          DoEngineMatchMultiple(x, qs)
    \/ DoGetOptions
    \/ \E o \in CopyMutations : DoMutateCopy(o)

SpecEngine == InitEngine /\ [][NextEngine]_vars

\* The constructor argument and the setOptions arguments merged in order:
\* a field keeps the value of the last update that names it.
RECURSIVE Merged(_)
Merged(updates) ==
    IF updates = <<>> THEN <<>>
    ELSE LET earlier == Merged(SubSeq(updates, 1, Len(updates) - 1))
             last    == updates[Len(updates)]
         IN  [k \in DOMAIN earlier \cup DOMAIN last |->
                 IF k \in DOMAIN last THEN last[k] ELSE earlier[k]]

\* What a new engine constructed with the merged options returns for the
\* last call.
FreshEngineReturns ==
    IF call.op = "matchSingle"
    THEN matchSingle(<<>>, MatchingEngine(Merged(call.updates)), TheInput,
                     ThePattern, 0)
    ELSE matchMultiple(<<>>, MatchingEngine(Merged(call.updates)), TheInput,
                       call.patterns.items)

\* The last call returned what a new engine with the merged options returns.
SameAsFreshEngine ==
    (call.op \in {"matchSingle", "matchMultiple"}) =>
        \A r \in {FreshEngineReturns} :
            /\ ret.threw = r.threw
            /\ ret.error = r.error
            /\ ret.value = r.result

\* C27: after any sequence of setOptions calls matchSingle and matchMultiple
\* return what a new engine constructed with the merged options returns;
\* setOptions leaves the result returned before it as it was; getOptions
\* returns the merged options, and assigning to the object it returned does
\* not change the engine's options.
C27_SetOptionsMerges ==
    /\ [](SameAsFreshEngine)
    /\ []((call.op = "getOptions") =>
              ret.value.options = MatchingEngine(Merged(call.updates)))
    /\ [][call'.op = "setOptions" => ret' = ret]_vars
    /\ [][call'.op = "mutate" => call'.options = call.options]_vars

\* Two updates naming different fields, then a call whose result needs
\* both: "ab" partially matches "a", and "A" does not match "a" any more.
C27_Witness ==
    /\ call.op = "matchMultiple"
    /\ call.updates = <<<<>>, [caseSensitive |-> TRUE], [partialMatch |-> TRUE]>>
    /\ TheInput = <<"a", "b">>
    /\ call.patterns.items = <<Str(<<"a">>), Str(<<"!", "A">>)>>
    /\ ret.value.matched

\* ------------------------------------------------------------------------
\* SpecWildcard: matchSingle with the default options on inputs that hold
\* letters and line feeds.

MaxWildcardInputLen == 3

MaxWildcardPatternLen == 2

WildcardInputChars == {"a", LF}

WildcardPatternChars == {"a", "*", "?"}

InitWildcard ==
    /\ cache = <<>>
    /\ ret = NotCalled
    /\ call \in {Call("matchSingle", One(x), One(Str(q)), <<>>, 0) :
                   x \in StringsOver(WildcardInputChars, MaxWildcardInputLen),
                   q \in StringsOver(WildcardPatternChars, MaxWildcardPatternLen)}

NextWildcard == DoMatchSingle

SpecWildcard == InitWildcard /\ [][NextWildcard]_vars

\* C28: in regex mode with the default options "*" stands for any run of
\* characters and "?" for any one character, line terminators included: the
\* pattern "*" matches every input and the pattern "?" the inputs of length
\* one.
C28_Wildcards ==
    (call.op = "matchSingle" /\ ret.done) =>
        /\ ~ret.threw
        /\ ret.value.matched = Glob(ThePattern.val, TheInput)

\* ------------------------------------------------------------------------
\* SpecAgree: isMatch and matcher on the same arguments, with and without a
\* separator.

MaxAgreeInputs == 2

AgreeInputs == {<<"a">>, <<"b">>, <<"a", ".", "b">>}

AgreePatterns ==
    {Str(<<"a">>), Str(<<"*">>), Str(<<"a", ".", "*">>), Str(<<"!", "a", ".", "*">>)}

AgreeOptions == [separator : {<<>>, <<".">>}, allPatterns : BOOLEAN]

InitAgree ==
    /\ cache = <<>>
    /\ ret = NotCalled
    /\ call \in {Call(op, xs, qs, o, 0) :
                   op \in {"isMatch", "matcher"},
                   xs \in {One(x) : x \in AgreeInputs}
                            \cup {Many(l) : l \in SeqsOver(AgreeInputs, 0, MaxAgreeInputs)},
                   qs \in {One(q) : q \in AgreePatterns}
                            \cup {Many(l) : l \in SeqsOver(AgreePatterns, 0, 2)},
                   o \in AgreeOptions}

NextAgree == DoIsMatch \/ DoMatcher

SpecAgree == InitAgree /\ [][NextAgree]_vars

\* C29: isMatch raises exactly when matcher raises on the same arguments,
\* and otherwise returns true exactly when matcher returns a list that is
\* not empty.
C29_IsMatchAgrees ==
    /\ (call.op = "isMatch" /\ ret.done) =>
          \A m \in {matcher(<<>>, call.inputs, call.patterns, call.options)} :
              /\ ret.threw = m.threw
              /\ ~ret.threw => (ret.value = (m.value # <<>>))
    /\ (call.op = "matcher" /\ ret.done) =>
          \A b \in {isMatch(<<>>, call.inputs, call.patterns, call.options)} :
              /\ ret.threw = b.threw
              /\ ~ret.threw => (b.value = (ret.value # <<>>))

\* ------------------------------------------------------------------------
\* SpecOrder: matchMultiple on pattern lists with valid and invalid
\* patterns, with and without a separator.

MaxOrderPatterns == 2

OrderPatterns ==
    {Str(<<"a">>), Str(<<"!", "a">>), Str(<<"*">>), Str(<<"+">>),
     Str(<<"b", ".", "*">>)}

OrderInputs == {<<>>, <<"a">>, <<"b", ".", "a">>}

OrderOptions == [allPatterns : BOOLEAN, separator : {<<>>, <<".">>}]

InitOrder ==
    /\ cache = <<>>
    /\ ret = NotCalled
    /\ call \in {Call("matchMultiple", One(x), Many(qs), o, 0) :
                   x \in OrderInputs,
                   qs \in SeqsOver(OrderPatterns, 0, MaxOrderPatterns),
                   o \in OrderOptions}

NextOrder == DoMatchMultiple

SpecOrder == InitOrder /\ [][NextOrder]_vars

Range(seq) == {seq[i] : i \in 1..Len(seq)}

\* The lists made of the patterns of the call, each at least once, in any
\* order, up to one element longer than the list of the call: its
\* permutations and its versions with a pattern repeated.
Rearranged ==
    {qs \in SeqsOver(Range(call.patterns.items), 1, Len(call.patterns.items) + 1) :
        Range(qs) = Range(call.patterns.items)}

\* C30: matchMultiple raises on a list iff it raises on every rearrangement
\* of the list, and returns the same matched on them.
C30_OrderIndependent ==
    (call.op = "matchMultiple" /\ ret.done) =>
        \A qs \in Rearranged :
            \A r \in {matchMultiple(<<>>, MatchingEngine(call.options), TheInput, qs)} :
                /\ r.threw = ret.threw
                /\ ~ret.threw => r.result.matched = ret.value.matched

\* A list of two different patterns of which only the second matches.
C30_Witness ==
    /\ call.op = "matchMultiple"
    /\ ret.done
    /\ call.patterns.items = <<Str(<<"a">>), Str(<<"*">>)>>
    /\ TheInput = <<>>
    /\ ~MatchingEngine(call.options).allPatterns
    /\ ~ret.threw
    /\ ret.value.matched
    /\ Cardinality(Rearranged) > 1

====
